---- MODULE Spec2Model ----
(***************************************************************************)
(* docker-cr: orchestration of CRIU checkpoint / restore of a process or   *)
(* a Docker container.  The model follows one CLI invocation at a time     *)
(* through the functions of the repository, one action per call that can   *)
(* fail or that changes the container runtime, the filesystem or the       *)
(* engine.  The container runtime, the process table, the filesystem and   *)
(* the checkpoint engine are the environment; their outcomes are chosen    *)
(* nondeterministically where the code branches on them.                   *)
(***************************************************************************)
EXTENDS Integers, Sequences, FiniteSets, TLC

VARIABLES
    ctr,        \* the container the runtime knows under the target identifier
    proc,       \* the target process as /proc shows it
    dirExists,  \* whether the checkpoint directory exists
    files,      \* the files of the checkpoint directory
    pc,         \* position of the running invocation
    entry,      \* the function the invocation was dispatched to
    opNo,       \* number of invocations started so far
    pid,        \* local: the process id being checkpointed
    info,       \* local: the ProcessInfo of the last analyzeProcess
    opts,       \* local: the rpc.CriuOpts being built
    dumps,      \* engine dumps issued by this invocation, in order
    attempts,   \* strategy attempts of this invocation with their outcome
    handles,    \* checkpoint-directory handles currently open
    clients,    \* engine clients prepared and not yet cleaned up
    calls,      \* container-runtime calls issued by this invocation
    ret,        \* the error value the dispatched function returned
    exitCode,   \* exit code of the last finished CLI invocation (-1: none)
    loaded,     \* local: what restore parsed from the metadata file
    restores,   \* engine restores issued by this invocation
    observed,   \* what the post-restore check of the runtime observed
    peer,       \* a second docker-cr process, started while the first is in flight
    procfs,     \* the /proc tables and descriptors analyzeProcess reads
    notify,     \* a NotifyHandler, its hook script and the callback last called
    target      \* local of main: the target word of the checkpoint command

vars == <<ctr, proc, dirExists, files, pc, entry, opNo, pid, info, opts, dumps,
          attempts, handles, clients, calls, ret, exitCode, loaded, restores,
          observed, peer, procfs, notify, target>>

----------------------------------------------------------------------------
(* Bounds and input sets *)

MaxOps == 2

Pids == {1}
ContainerID == "c1"
\* The images the test scripts run their containers from.
ImageRef == {"alpine:latest", "nginx:alpine"}
TargetArgs == {"1", "c1"}
ProcStats == {"none", "R", "S", "Z"}

Nil == "nil"
T == "true"
F == "false"

FileNames == {"container.info", "container.meta", "dump.log", "dump-minimal.log",
              "criu-dump.log", "criu-restore.log", "restore.log", "pstree.img",
              "docker-checkpoint.info", "checkpoint-c1"}

NoFile == [lines |-> <<>>, by |-> "", op |-> 0]

\* No container bears the identifier.
NoContainer == [exists |-> FALSE, running |-> FALSE, pid |-> 0, image |-> ""]

NoInfo == [PID |-> 0, HasTCP |-> FALSE, HasUnixSockets |-> FALSE, State |-> ""]

NoErr == [status |-> "none", msg |-> "", carries |-> {}]
Ok == [status |-> "ok", msg |-> "", carries |-> {}]
Err(m, c) == [status |-> "error", msg |-> m, carries |-> c]

NoLoaded == [read |-> FALSE, IMAGE |-> "", PID |-> 0]

NoPeer == [pc |-> "idle", during |-> ""]

\* No /proc entry is being read; no handler has been made.
NoProcfs ==
    [tcp |-> [readable |-> FALSE, lines |-> <<>>],
     tcp6 |-> [readable |-> FALSE, lines |-> <<>>],
     unix |-> [readable |-> FALSE, lines |-> <<>>],
     fd |-> [readable |-> FALSE, lines |-> <<>>]]
NoNotify ==
    [handler |-> [PreDumpScript |-> "", PostDumpScript |-> "", PreRestoreScript |-> "",
                  LogPrefix |-> "[CRIU Notify]", Verbose |-> FALSE],
     scripts |-> [s \in {"a.sh", "b.sh"} |-> "missing"], called |-> "", result |-> NoErr]

----------------------------------------------------------------------------
(* Pure helpers *)

\* strconv.Atoi: the decimal strings of the input sets.
IsDecimal(s) == s \in {"0", "1", "-1"}
Atoi(s) == IF s = "1" THEN 1 ELSE IF s = "-1" THEN -1 ELSE 0

\* fmt.Sprintf("%d", n) for the process ids of the model.
FmtInt(n) == IF n = 1 THEN "1" ELSE "0"

\* The zero value of rpc.CriuOpts: every optional field unset.
EmptyOpts ==
    [Pid |-> 0, LogFile |-> "", LeaveRunning |-> Nil, TcpEstablished |-> Nil,
     ExtUnixSk |-> Nil, ShellJob |-> Nil, FileLocks |-> Nil, GhostLimit |-> 0,
     ManageCgroups |-> Nil, ManageCgroupsMode |-> Nil, OrphanPtsMaster |-> Nil,
     ExtMasters |-> Nil, AutoExtMnt |-> Nil, RstSibling |-> Nil,
     External |-> <<>>, SkipMnt |-> <<>>, EnableFs |-> <<>>]

\* checkpointDockerProcess: the Docker-specific options.
DockerOpts(p) ==
    [EmptyOpts EXCEPT !.Pid = p, !.LogFile = "dump.log", !.LeaveRunning = T,
        !.GhostLimit = 10000000,
        !.External = <<"mnt[]:m", "mnt[/proc/sys]:m", "mnt[/proc/sysrq-trigger]:m",
                       "mnt[/proc/irq]:m", "mnt[/proc/bus]:m",
                       "mnt[/sys/firmware]:m", "dev[]">>,
        !.AutoExtMnt = T]

\* checkpointWithMinimalOptions: the minimal options.
MinimalOpts(p) ==
    [EmptyOpts EXCEPT !.Pid = p, !.LogFile = "dump-minimal.log", !.LeaveRunning = T,
        !.External = <<"mnt[]">>]

\* checkpointSimpleProcess: identifier, destination and log routing only.
SimpleOpts(p) ==
    [EmptyOpts EXCEPT !.Pid = p, !.LogFile = "dump.log"]

\* checkpointContainer (checkpoint.go): the fixed container options.
ContainerOpts(p) ==
    [EmptyOpts EXCEPT !.Pid = p, !.LogFile = "criu-dump.log", !.LeaveRunning = F,
        !.TcpEstablished = T, !.ExtUnixSk = T, !.ShellJob = F, !.FileLocks = T,
        !.GhostLimit = 1048576, !.ManageCgroups = F, !.OrphanPtsMaster = T,
        !.ExtMasters = T,
        !.SkipMnt = <<"/etc/resolv.conf", "/etc/hostname", "/etc/hosts",
                      "/dev/mqueue", "/proc/sys", "/proc/sysrq-trigger">>,
        !.EnableFs = <<"overlay", "proc", "sysfs", "devtmpfs", "tmpfs">>,
        !.ManageCgroupsMode = "IGNORE"]

\* validateProcessExists: /proc/<pid>/stat exists.
validateProcessExists(stat) == stat # "none"

\* getProcessState: the state letter of /proc/<pid>/stat decoded.
getProcessState(stat) ==
    CASE stat = "none" -> "unknown"
      [] stat = "R" -> "running"
      [] stat = "S" -> "sleeping"
      [] stat = "D" -> "disk sleep"
      [] stat = "Z" -> "zombie"
      [] stat = "T" -> "stopped"
      [] stat = "t" -> "tracing stop"
      [] stat = "X" -> "dead"
      [] OTHER -> stat

\* analyzeProcess: the profile of a process that exists.  tcp: an established
\* entry in a TCP table; sock: a socket descriptor or a unix-socket table.
analyzeProcess(p, stat, tcp, sock) ==
    [PID |-> p, HasTCP |-> tcp, HasUnixSockets |-> sock,
     State |-> getProcessState(stat)]

\* prepareProcessForDump: whether the probe lets the dump proceed.
ProbeOK(stat) ==
    /\ validateProcessExists(stat)
    /\ getProcessState(stat) # "zombie"

\* prepareProcessForDump that writes all three flags from the profile.
prepareProcessForDump_Overwrite(inf, o, shellJob) ==
    [o EXCEPT !.TcpEstablished = IF inf.HasTCP THEN T ELSE F,
              !.ExtUnixSk = IF inf.HasUnixSockets THEN T ELSE F,
              !.ShellJob = IF shellJob THEN T ELSE F]

\* prepareProcessForDump: the options after the profile has been applied.
prepareProcessForDump(inf, o, shellJob) ==
    LET o1 == IF inf.HasTCP THEN [o EXCEPT !.TcpEstablished = T] ELSE o
        o2 == IF inf.HasUnixSockets THEN [o1 EXCEPT !.ExtUnixSk = T] ELSE o1
    IN  IF o2.ShellJob = Nil
        THEN [o2 EXCEPT !.ShellJob = IF shellJob THEN T ELSE F]
        ELSE o2

\* The metadata text written by the container checkpoints.
MetadataLines(id, name, image, p) ==
    << [key |-> "CONTAINER_ID", val |-> id],
       [key |-> "CONTAINER_NAME", val |-> name],
       [key |-> "IMAGE", val |-> image],
       [key |-> "PID", val |-> FmtInt(p)] >>

\* The engine can dump only a process that exists.
DumpOutcomes(stat) == IF stat = "none" THEN {FALSE} ELSE {TRUE, FALSE}

\* After a dump that does not leave the source running the process is gone.
ProcAfterDump(o, ok) ==
    IF ok /\ o.LeaveRunning # T THEN "none" ELSE proc

CtrAfterDump(o, ok) ==
    IF ok /\ o.LeaveRunning # T /\ ctr.running /\ ctr.pid = o.Pid
    THEN [ctr EXCEPT !.running = FALSE, !.pid = 0]
    ELSE ctr

\* The files after an engine dump: its log, and the images when it succeeded.
FilesAfterDump(by, o, ok) ==
    [f \in FileNames |->
        IF f = o.LogFile \/ (ok /\ f = "pstree.img")
        THEN [lines |-> <<>>, by |-> by, op |-> opNo]
        ELSE files[f]]

DumpRecord(by, o, ok) ==
    [by |-> by, opts |-> o, ok |-> ok, stat |-> proc, open |-> handles]

----------------------------------------------------------------------------
(* Returning from the dispatched function: the deferred Close and Cleanup
   calls of every frame run before the caller sees the error. *)

Return(r) ==
    /\ ret' = r
    /\ pc' = "return"
    /\ handles' = {}
    /\ clients' = {}

TypeOK ==
    /\ ctr \in [exists : BOOLEAN, running : BOOLEAN, pid : Pids \cup {0},
                image : ImageRef \cup {""}]
    /\ proc \in ProcStats
    /\ dirExists \in BOOLEAN
    /\ opNo \in 0..MaxOps
    /\ exitCode \in {-1, 0, 1}
    /\ target \in TargetArgs \cup {""}

Init ==
    /\ ctr \in {c \in [exists : BOOLEAN, running : BOOLEAN, pid : Pids \cup {0},
                        image : ImageRef \cup {""}] :
                  /\ c.running => c.exists
                  /\ ~c.running => c.pid = 0
                  /\ c.exists <=> c.image # ""}
    /\ proc \in ProcStats
    /\ dirExists \in BOOLEAN
    /\ files = [f \in FileNames |-> NoFile]
    /\ pc = "idle"
    /\ entry = ""
    /\ opNo = 0
    /\ pid = 0
    /\ info = NoInfo
    /\ opts = EmptyOpts
    /\ dumps = <<>>
    /\ attempts = <<>>
    /\ handles = {}
    /\ clients = {}
    /\ calls = <<>>
    /\ ret = NoErr
    /\ exitCode = -1
    /\ loaded = NoLoaded
    /\ restores = <<>>
    /\ observed = "none"
    /\ peer = NoPeer
    /\ procfs = NoProcfs
    /\ notify = NoNotify
    /\ target = ""

\* A new invocation starts with fresh locals; t is the target word of the
\* checkpoint command, "" for every other command.
Begin(e, first, p, t) ==
    /\ pc = "idle"
    /\ opNo < MaxOps
    /\ opNo' = opNo + 1
    /\ entry' = e
    /\ pc' = first
    /\ pid' = p
    /\ info' = NoInfo
    /\ opts' = EmptyOpts
    /\ dumps' = <<>>
    /\ attempts' = <<>>
    /\ handles' = {}
    /\ clients' = {}
    /\ calls' = <<>>
    /\ ret' = NoErr
    /\ exitCode' = -1
    /\ loaded' = NoLoaded
    /\ restores' = <<>>
    /\ observed' = "none"
    /\ target' = t
    /\ UNCHANGED <<ctr, proc, dirExists, files, peer, procfs, notify>>

----------------------------------------------------------------------------
(* main (main.go 9-74): checkpoint dispatches on the form of the target. *)

\* main's checkpoint command that takes every target for a container.
main_checkpoint_AlwaysContainer ==
    \E t \in TargetArgs :
        Begin("checkpointDockerContainer", "cdc_inspect", 0, t)

main_checkpoint ==
    \E t \in TargetArgs :
        IF IsDecimal(t)
        THEN Begin("checkpointSimpleProcess", "csp_mkdir", Atoi(t), t)
        ELSE Begin("checkpointDockerContainer", "cdc_inspect", 0, t)

(* main (main.go 128-177): the container-only command line. *)
main_checkpoint_container ==
    Begin("checkpointContainer", "cc_inspect", 0, "")

\* The functions main dispatches to.
CLIEntries == {"checkpointSimpleProcess", "checkpointDockerContainer",
               "checkpointContainer", "restoreContainer", "restoreSimpleProcess"}

\* The command lines (without the program name) that main answers itself.
OtherArgs == {<<>>, <<"help">>, <<"--help">>, <<"bogus">>, <<"checkpoint">>,
              <<"cp", "c1">>, <<"restore">>, <<"rs", "c1">>}

\* main: what it does with a command line; minRestore is the number of words
\* the restore command needs (2 in main.go 42-48, 3 in main.go 152-157).
mainOutcome(argv, minRestore) ==
    IF Len(argv) < 1 THEN "usage"
    ELSE IF argv[1] \in {"checkpoint", "cp"}
         THEN IF Len(argv) < 3 THEN "usage" ELSE "dispatch"
    ELSE IF argv[1] \in {"restore", "rs"}
         THEN IF Len(argv) < minRestore THEN "usage" ELSE "dispatch"
    ELSE IF argv[1] \in {"help", "-h", "--help"} THEN "help"
    ELSE "unknown"

\* main: a command line that dispatches to no operation.
main_undispatched ==
    \E argv \in OtherArgs, minRestore \in {2, 3} :
        /\ mainOutcome(argv, minRestore) # "dispatch"
        /\ Begin(mainOutcome(argv, minRestore), "exit", 0, "")

\* main: os.Exit(1) after a usage error or an unknown command; help returns
\* from main, which is exit code 0.
main_exit_undispatched ==
    /\ pc = "exit"
    /\ pc' = "idle"
    /\ exitCode' = IF entry = "help" THEN 0 ELSE 1
    /\ UNCHANGED <<ctr, proc, dirExists, files, entry, opNo, pid, info, opts, dumps,
                   attempts, handles, clients, calls, ret, loaded, restores, observed>>
    /\ UNCHANGED <<peer, procfs, notify, target>>

main_exit_AlwaysZero ==
    /\ pc = "return"
    /\ entry \in CLIEntries
    /\ pc' = "idle"
    /\ exitCode' = 0
    /\ UNCHANGED <<ctr, proc, dirExists, files, entry, opNo, pid, info, opts, dumps,
                   attempts, handles, clients, calls, ret, loaded, restores, observed>>
    /\ UNCHANGED <<peer, procfs, notify, target>>

\* main: exit 1 when the dispatched function returned an error, else 0.
main_exit ==
    /\ pc = "return"
    /\ entry \in CLIEntries
    /\ pc' = "idle"
    /\ exitCode' = IF ret.status = "ok" THEN 0 ELSE 1
    /\ UNCHANGED <<ctr, proc, dirExists, files, entry, opNo, pid, info, opts, dumps,
                   attempts, handles, clients, calls, ret, loaded, restores, observed>>
    /\ UNCHANGED <<peer, procfs, notify, target>>

----------------------------------------------------------------------------
(* checkpointDockerContainer (checkpoint_docker.go 15-58) *)

ContainerEntry == {"checkpointDockerContainer", "checkpointContainer"}

\* ContainerInspect and the running / pid checks, shared text of both
\* container checkpoints.
InspectForCheckpoint(next) ==
    /\ calls' = Append(calls, [call |-> "inspect", ok |-> ctr.exists])
    /\ \/ /\ ~ctr.exists
          /\ Return(Err("failed to inspect container", {}))
          /\ UNCHANGED pid
       \/ /\ ctr.exists /\ ~ctr.running
          /\ Return(Err("container is not running", {}))
          /\ UNCHANGED pid
       \/ /\ ctr.running /\ ctr.pid = 0
          /\ Return(Err("could not get PID for container", {}))
          /\ UNCHANGED pid
       \/ /\ ctr.running /\ ctr.pid # 0
          /\ pid' = ctr.pid
          /\ pc' = next
          /\ UNCHANGED <<ret, handles, clients>>

cdc_inspect ==
    /\ pc = "cdc_inspect"
    /\ InspectForCheckpoint("cdc_mkdir")
    /\ UNCHANGED <<ctr, proc, dirExists, files, entry, opNo, info, opts, dumps,
                   attempts, exitCode, loaded, restores, observed>>
    /\ UNCHANGED <<peer, procfs, notify, target>>

\* os.MkdirAll(checkpointDir)
MkdirAll(next) ==
    \/ /\ dirExists' = TRUE
       /\ pc' = next
       /\ UNCHANGED <<ret, handles, clients>>
    \/ /\ ~dirExists
       /\ Return(Err("failed to create checkpoint directory", {}))
       /\ UNCHANGED dirExists

cdc_mkdir ==
    /\ pc = "cdc_mkdir"
    /\ MkdirAll("cdc_writemeta")
    /\ UNCHANGED <<ctr, proc, files, entry, opNo, pid, info, opts, dumps, attempts,
                   calls, exitCode, loaded, restores, observed>>
    /\ UNCHANGED <<peer, procfs, notify, target>>

\* os.WriteFile(container.info, metadata): creates or truncates the file.
WriteMetadata(name, next) ==
    \/ /\ files' = [files EXCEPT ![name] =
                      [lines |-> MetadataLines(ContainerID, ContainerID, ctr.image, pid),
                       by |-> entry, op |-> opNo]]
       /\ pc' = next
       /\ UNCHANGED <<ret, handles, clients>>
    \/ /\ Return(Err("failed to write metadata", {}))
       /\ UNCHANGED files

cdc_writemeta ==
    /\ pc = "cdc_writemeta"
    /\ WriteMetadata("container.info", "cdp_version")
    /\ UNCHANGED <<ctr, proc, dirExists, entry, opNo, pid, info, opts, dumps,
                   attempts, calls, exitCode, loaded, restores, observed>>
    /\ UNCHANGED <<peer, procfs, notify, target>>

----------------------------------------------------------------------------
(* checkpointDockerProcess (checkpoint_docker.go 60-137) *)

FailedAttempt(by) == Append(attempts, [by |-> by, ok |-> FALSE])

\* criuClient.GetCriuVersion()
cdp_version_Fallback ==
    /\ pc = "cdp_version"
    /\ \/ /\ pc' = "cdp_prepare"
          /\ UNCHANGED attempts
       \/ /\ pc' = "cwm_remove"
          /\ attempts' = FailedAttempt("checkpointDockerProcess")
    /\ UNCHANGED <<ctr, proc, dirExists, files, entry, opNo, pid, info, opts, dumps,
                   calls, exitCode, loaded, restores, observed, ret, handles, clients>>
    /\ UNCHANGED <<peer, procfs, notify, target>>

cdp_version ==
    /\ pc = "cdp_version"
    /\ \/ /\ pc' = "cdp_prepare"
          /\ UNCHANGED <<ret, handles, clients, attempts>>
       \/ /\ Return(Err("failed to get CRIU version (is CRIU installed?)", {}))
          /\ attempts' = FailedAttempt("checkpointDockerProcess")
    /\ UNCHANGED <<ctr, proc, dirExists, files, entry, opNo, pid, info, opts, dumps,
                   calls, exitCode, loaded, restores, observed>>
    /\ UNCHANGED <<peer, procfs, notify, target>>

\* criuClient.Prepare(); defer criuClient.Cleanup()
cdp_prepare ==
    /\ pc = "cdp_prepare"
    /\ \/ /\ clients' = clients \cup {"checkpointDockerProcess"}
          /\ pc' = "cdp_open"
          /\ UNCHANGED <<ret, handles, attempts>>
       \/ /\ Return(Err("failed to prepare CRIU", {}))
          /\ attempts' = FailedAttempt("checkpointDockerProcess")
    /\ UNCHANGED <<ctr, proc, dirExists, files, entry, opNo, pid, info, opts, dumps,
                   calls, exitCode, loaded, restores, observed>>
    /\ UNCHANGED <<peer, procfs, notify, target>>

\* os.Open(checkpointDir); defer imageDir.Close()
cdp_open ==
    /\ pc = "cdp_open"
    /\ \/ /\ dirExists
          /\ handles' = handles \cup {"checkpointDockerProcess"}
          /\ pc' = "cdp_probe"
          /\ UNCHANGED <<ret, clients, attempts>>
       \/ /\ Return(Err("failed to open checkpoint directory", {}))
          /\ attempts' = FailedAttempt("checkpointDockerProcess")
    /\ UNCHANGED <<ctr, proc, dirExists, files, entry, opNo, pid, info, opts, dumps,
                   calls, exitCode, loaded, restores, observed>>
    /\ UNCHANGED <<peer, procfs, notify, target>>

\* opts := &rpc.CriuOpts{...}; prepareProcessForDump(pid, opts)
cdp_probe ==
    /\ pc = "cdp_probe"
    /\ \/ /\ ~validateProcessExists(proc)
          /\ Return(Err("failed to prepare process for dump", {}))
          /\ attempts' = FailedAttempt("checkpointDockerProcess")
          /\ opts' = DockerOpts(pid)
          /\ UNCHANGED info
       \/ /\ validateProcessExists(proc)
          /\ \E tcp, sock, sj \in BOOLEAN :
               LET inf == analyzeProcess(pid, proc, tcp, sock) IN
               /\ info' = inf
               /\ IF ProbeOK(proc)
                  THEN /\ opts' = prepareProcessForDump(inf, DockerOpts(pid), sj)
                       /\ pc' = "cdp_dump"
                       /\ UNCHANGED <<ret, handles, clients, attempts>>
                  ELSE /\ Return(Err("failed to prepare process for dump", {}))
                       /\ attempts' = FailedAttempt("checkpointDockerProcess")
                       /\ opts' = DockerOpts(pid)
    /\ UNCHANGED <<ctr, proc, dirExists, files, entry, opNo, pid, dumps,
                   calls, exitCode, loaded, restores, observed>>
    /\ UNCHANGED <<peer, procfs, notify, target>>

\* Where checkpointDockerProcess goes when its dump failed: the fallback.
AfterDockerDumpFailure_Retry == "cdp_prepare"

AfterDockerDumpFailure == "cwm_remove"

\* criuClient.Dump(opts, notify) and what follows it.
cdp_dump ==
    /\ pc = "cdp_dump"
    /\ \E ok \in DumpOutcomes(proc) :
         /\ dumps' = Append(dumps, DumpRecord("checkpointDockerProcess", opts, ok))
         /\ files' = FilesAfterDump("checkpointDockerProcess", opts, ok)
         /\ proc' = ProcAfterDump(opts, ok)
         /\ ctr' = CtrAfterDump(opts, ok)
         /\ attempts' = Append(attempts, [by |-> "checkpointDockerProcess", ok |-> ok])
         /\ IF ok
            THEN \* os.ReadDir of the checkpoint directory, then return nil
                 IF dirExists
                 THEN Return(Ok)
                 ELSE Return(Err("failed to read checkpoint directory", {}))
            ELSE /\ pc' = AfterDockerDumpFailure
                 /\ UNCHANGED <<ret, handles, clients>>
    /\ UNCHANGED <<dirExists, entry, opNo, pid, info, opts, calls, exitCode, loaded,
                   restores, observed>>
    /\ UNCHANGED <<peer, procfs, notify, target>>

----------------------------------------------------------------------------
(* checkpointWithMinimalOptions (checkpoint_docker.go 139-182) *)

\* os.Remove(dump.log): the log of the previous attempt.
cwm_remove ==
    /\ pc = "cwm_remove"
    /\ files' = [files EXCEPT !["dump.log"] = NoFile]
    /\ pc' = "cwm_prepare"
    /\ UNCHANGED <<ctr, proc, dirExists, entry, opNo, pid, info, opts, dumps, attempts,
                   handles, clients, calls, ret, exitCode, loaded, restores, observed>>
    /\ UNCHANGED <<peer, procfs, notify, target>>

cwm_prepare ==
    /\ pc = "cwm_prepare"
    /\ \/ /\ clients' = clients \cup {"checkpointWithMinimalOptions"}
          /\ pc' = "cwm_open"
          /\ UNCHANGED <<ret, handles, attempts>>
       \/ /\ Return(Err("failed to prepare CRIU", {}))
          /\ attempts' = FailedAttempt("checkpointWithMinimalOptions")
    /\ UNCHANGED <<ctr, proc, dirExists, files, entry, opNo, pid, info, opts, dumps,
                   calls, exitCode, loaded, restores, observed>>
    /\ UNCHANGED <<peer, procfs, notify, target>>

cwm_open ==
    /\ pc = "cwm_open"
    /\ \/ /\ dirExists
          /\ handles' = handles \cup {"checkpointWithMinimalOptions"}
          /\ opts' = MinimalOpts(pid)
          /\ pc' = "cwm_dump"
          /\ UNCHANGED <<ret, clients, attempts>>
       \/ /\ Return(Err("failed to open checkpoint directory", {}))
          /\ attempts' = FailedAttempt("checkpointWithMinimalOptions")
          /\ UNCHANGED opts
    /\ UNCHANGED <<ctr, proc, dirExists, files, entry, opNo, pid, info, dumps,
                   calls, exitCode, loaded, restores, observed>>
    /\ UNCHANGED <<peer, procfs, notify, target>>

\* The error checkpointWithMinimalOptions returns when its dump failed: it wraps
\* the error of that dump.
MinimalFailure == Err("checkpoint failed even with minimal options",
                      {"checkpointWithMinimalOptions"})

cwm_dump ==
    /\ pc = "cwm_dump"
    /\ \E ok \in DumpOutcomes(proc) :
         /\ dumps' = Append(dumps, DumpRecord("checkpointWithMinimalOptions", opts, ok))
         /\ files' = FilesAfterDump("checkpointWithMinimalOptions", opts, ok)
         /\ proc' = ProcAfterDump(opts, ok)
         /\ ctr' = CtrAfterDump(opts, ok)
         /\ attempts' = Append(attempts, [by |-> "checkpointWithMinimalOptions", ok |-> ok])
         /\ Return(IF ok THEN Ok ELSE MinimalFailure)
    /\ UNCHANGED <<dirExists, entry, opNo, pid, info, opts, calls, exitCode, loaded,
                   restores, observed>>
    /\ UNCHANGED <<peer, procfs, notify, target>>

----------------------------------------------------------------------------
(* checkpointSimpleProcess (unnamed/part_002 80-129) *)

csp_mkdir ==
    /\ pc = "csp_mkdir"
    /\ MkdirAll("csp_version")
    /\ UNCHANGED <<ctr, proc, files, entry, opNo, pid, info, opts, dumps, attempts,
                   calls, exitCode, loaded, restores, observed>>
    /\ UNCHANGED <<peer, procfs, notify, target>>

csp_version ==
    /\ pc = "csp_version"
    /\ \/ /\ pc' = "csp_prepare"
          /\ UNCHANGED <<ret, handles, clients, attempts>>
       \/ /\ Return(Err("failed to get CRIU version", {}))
          /\ attempts' = FailedAttempt("checkpointSimpleProcess")
    /\ UNCHANGED <<ctr, proc, dirExists, files, entry, opNo, pid, info, opts, dumps,
                   calls, exitCode, loaded, restores, observed>>
    /\ UNCHANGED <<peer, procfs, notify, target>>

csp_prepare ==
    /\ pc = "csp_prepare"
    /\ \/ /\ clients' = clients \cup {"checkpointSimpleProcess"}
          /\ pc' = "csp_open"
          /\ UNCHANGED <<ret, handles, attempts>>
       \/ /\ Return(Err("failed to prepare CRIU", {}))
          /\ attempts' = FailedAttempt("checkpointSimpleProcess")
    /\ UNCHANGED <<ctr, proc, dirExists, files, entry, opNo, pid, info, opts, dumps,
                   calls, exitCode, loaded, restores, observed>>
    /\ UNCHANGED <<peer, procfs, notify, target>>

csp_open ==
    /\ pc = "csp_open"
    /\ \/ /\ dirExists
          /\ handles' = handles \cup {"checkpointSimpleProcess"}
          /\ pc' = "csp_probe"
          /\ UNCHANGED <<ret, clients, attempts>>
       \/ /\ Return(Err("failed to open checkpoint directory", {}))
          /\ attempts' = FailedAttempt("checkpointSimpleProcess")
    /\ UNCHANGED <<ctr, proc, dirExists, files, entry, opNo, pid, info, opts, dumps,
                   calls, exitCode, loaded, restores, observed>>
    /\ UNCHANGED <<peer, procfs, notify, target>>

csp_probe ==
    /\ pc = "csp_probe"
    /\ \/ /\ ~validateProcessExists(proc)
          /\ Return(Err("failed to prepare process", {}))
          /\ attempts' = FailedAttempt("checkpointSimpleProcess")
          /\ opts' = SimpleOpts(pid)
          /\ UNCHANGED info
       \/ /\ validateProcessExists(proc)
          /\ \E tcp, sock, sj \in BOOLEAN :
               LET inf == analyzeProcess(pid, proc, tcp, sock) IN
               /\ info' = inf
               /\ IF ProbeOK(proc)
                  THEN /\ opts' = prepareProcessForDump(inf, SimpleOpts(pid), sj)
                       /\ pc' = "csp_dump"
                       /\ UNCHANGED <<ret, handles, clients, attempts>>
                  ELSE /\ Return(Err("failed to prepare process", {}))
                       /\ attempts' = FailedAttempt("checkpointSimpleProcess")
                       /\ opts' = SimpleOpts(pid)
    /\ UNCHANGED <<ctr, proc, dirExists, files, entry, opNo, pid, dumps,
                   calls, exitCode, loaded, restores, observed>>
    /\ UNCHANGED <<peer, procfs, notify, target>>

csp_dump ==
    /\ pc = "csp_dump"
    /\ \E ok \in DumpOutcomes(proc) :
         /\ dumps' = Append(dumps, DumpRecord("checkpointSimpleProcess", opts, ok))
         /\ files' = FilesAfterDump("checkpointSimpleProcess", opts, ok)
         /\ proc' = ProcAfterDump(opts, ok)
         /\ ctr' = CtrAfterDump(opts, ok)
         /\ attempts' = Append(attempts, [by |-> "checkpointSimpleProcess", ok |-> ok])
         /\ Return(IF ok THEN Ok
                   ELSE Err("checkpoint failed", {"checkpointSimpleProcess"}))
    /\ UNCHANGED <<dirExists, entry, opNo, pid, info, opts, calls, exitCode, loaded,
                   restores, observed>>
    /\ UNCHANGED <<peer, procfs, notify, target>>

----------------------------------------------------------------------------
(* checkpointContainer (checkpoint.go 17-135) *)

cc_inspect ==
    /\ pc = "cc_inspect"
    /\ InspectForCheckpoint("cc_mkdir")
    /\ UNCHANGED <<ctr, proc, dirExists, files, entry, opNo, info, opts, dumps,
                   attempts, exitCode, loaded, restores, observed>>
    /\ UNCHANGED <<peer, procfs, notify, target>>

cc_mkdir ==
    /\ pc = "cc_mkdir"
    /\ MkdirAll("cc_writemeta")
    /\ UNCHANGED <<ctr, proc, files, entry, opNo, pid, info, opts, dumps, attempts,
                   calls, exitCode, loaded, restores, observed>>
    /\ UNCHANGED <<peer, procfs, notify, target>>

cc_writemeta ==
    /\ pc = "cc_writemeta"
    /\ WriteMetadata("container.info", "cc_version")
    /\ UNCHANGED <<ctr, proc, dirExists, entry, opNo, pid, info, opts, dumps,
                   attempts, calls, exitCode, loaded, restores, observed>>
    /\ UNCHANGED <<peer, procfs, notify, target>>

cc_version ==
    /\ pc = "cc_version"
    /\ \/ /\ pc' = "cc_prepare"
          /\ UNCHANGED <<ret, handles, clients, attempts>>
       \/ /\ Return(Err("failed to get CRIU version (is CRIU installed?)", {}))
          /\ attempts' = FailedAttempt("checkpointContainer")
    /\ UNCHANGED <<ctr, proc, dirExists, files, entry, opNo, pid, info, opts, dumps,
                   calls, exitCode, loaded, restores, observed>>
    /\ UNCHANGED <<peer, procfs, notify, target>>

cc_prepare ==
    /\ pc = "cc_prepare"
    /\ \/ /\ clients' = clients \cup {"checkpointContainer"}
          /\ pc' = "cc_open"
          /\ UNCHANGED <<ret, handles, attempts>>
       \/ /\ Return(Err("failed to prepare CRIU", {}))
          /\ attempts' = FailedAttempt("checkpointContainer")
    /\ UNCHANGED <<ctr, proc, dirExists, files, entry, opNo, pid, info, opts, dumps,
                   calls, exitCode, loaded, restores, observed>>
    /\ UNCHANGED <<peer, procfs, notify, target>>

cc_open ==
    /\ pc = "cc_open"
    /\ \/ /\ dirExists
          /\ handles' = handles \cup {"checkpointContainer"}
          /\ opts' = ContainerOpts(pid)
          /\ pc' = "cc_dump"
          /\ UNCHANGED <<ret, clients, attempts>>
       \/ /\ Return(Err("failed to open checkpoint directory", {}))
          /\ attempts' = FailedAttempt("checkpointContainer")
          /\ UNCHANGED opts
    /\ UNCHANGED <<ctr, proc, dirExists, files, entry, opNo, pid, info, dumps,
                   calls, exitCode, loaded, restores, observed>>
    /\ UNCHANGED <<peer, procfs, notify, target>>

cc_dump ==
    /\ pc = "cc_dump"
    /\ \E ok \in DumpOutcomes(proc) :
         /\ dumps' = Append(dumps, DumpRecord("checkpointContainer", opts, ok))
         /\ files' = FilesAfterDump("checkpointContainer", opts, ok)
         /\ proc' = ProcAfterDump(opts, ok)
         /\ ctr' = CtrAfterDump(opts, ok)
         /\ attempts' = Append(attempts, [by |-> "checkpointContainer", ok |-> ok])
         /\ Return(IF ok THEN Ok ELSE Err("checkpoint failed", {"checkpointContainer"}))
    /\ UNCHANGED <<dirExists, entry, opNo, pid, info, opts, calls, exitCode, loaded,
                   restores, observed>>
    /\ UNCHANGED <<peer, procfs, notify, target>>

----------------------------------------------------------------------------
(* restoreContainer (restore.go 19-154) *)

main_restore ==
    Begin("restoreContainer", "rc_readmeta", 0, "")

\* The value of the last line "<key>=<value>" with a non-empty value, or none.
LastValue(lines, key, none) ==
    LET idx == {i \in 1..Len(lines) : lines[i].key = key /\ lines[i].val # ""}
    IN  IF idx = {} THEN none
        ELSE lines[CHOOSE i \in idx : \A j \in idx : j <= i].val

\* restoreContainer: the fields read from container.info, line by line; a
\* PID line whose text strconv.Atoi refuses leaves the pid as it was.
ParseMetadata(lines) ==
    LET idx == {i \in 1..Len(lines) :
                  lines[i].key = "PID" /\ lines[i].val # "" /\ IsDecimal(lines[i].val)}
    IN  [read |-> TRUE,
         IMAGE |-> LastValue(lines, "IMAGE", ""),
         PID |-> IF idx = {} THEN 0
                 ELSE Atoi(lines[CHOOSE i \in idx : \A j \in idx : j <= i].val)]

\* os.ReadFile(container.info) and the parse of its lines.
rc_readmeta ==
    /\ pc = "rc_readmeta"
    /\ IF dirExists /\ files["container.info"].op # 0
       THEN /\ loaded' = ParseMetadata(files["container.info"].lines)
            /\ pc' = "rc_stop"
            /\ UNCHANGED <<ret, handles, clients>>
       ELSE /\ Return(Err("failed to read metadata file", {}))
            /\ UNCHANGED loaded
    /\ UNCHANGED <<ctr, proc, dirExists, files, entry, opNo, pid, info, opts, dumps,
                   attempts, calls, exitCode, restores, observed>>
    /\ UNCHANGED <<peer, procfs, notify, target>>

\* The container after ContainerStop succeeded; its main process is gone.
Stopped(c) == [c EXCEPT !.running = FALSE, !.pid = 0]
ProcAfterStop(c) == IF c.running /\ c.pid \in Pids THEN "none" ELSE proc

\* The container after a ContainerStart that succeeded.
Started(c) == [c EXCEPT !.exists = TRUE, !.running = TRUE, !.pid = 1]

\* The runtime calls of "inspect, and stop if running" (stopContainer, and the
\* same text in restoreContainerDirect); stopOK: whether ContainerStop succeeds.
StopCalls(c, stopOK) ==
    <<[call |-> "inspect", ok |-> c.exists]>> \o
    (IF c.exists /\ c.running THEN <<[call |-> "stop", ok |-> stopOK]>> ELSE <<>>)

\* Lines 45-53: the Docker client and stopContainer.  When the client cannot
\* be created the stop is skipped; when stopContainer fails a warning is
\* printed; either way the function goes on.  The os.ReadDir of lines 56-59
\* reads the directory the metadata file was just read from and succeeds.
rc_stop ==
    /\ pc = "rc_stop"
    /\ \/ /\ UNCHANGED <<ctr, proc, calls>>
       \/ \E stopOK \in BOOLEAN :
            /\ calls' = calls \o StopCalls(ctr, stopOK)
            /\ ctr' = IF ctr.running /\ stopOK THEN Stopped(ctr) ELSE ctr
            /\ proc' = IF stopOK THEN ProcAfterStop(ctr) ELSE proc
    /\ pc' = "rc_version"
    /\ UNCHANGED <<dirExists, files, entry, opNo, pid, info, opts, dumps, attempts,
                   handles, clients, ret, exitCode, loaded, restores, observed>>
    /\ UNCHANGED <<peer, procfs, notify, target>>

rc_version ==
    /\ pc = "rc_version"
    /\ \/ /\ pc' = "rc_prepare"
          /\ UNCHANGED <<ret, handles, clients>>
       \/ Return(Err("failed to get CRIU version", {}))
    /\ UNCHANGED <<ctr, proc, dirExists, files, entry, opNo, pid, info, opts, dumps,
                   attempts, calls, exitCode, loaded, restores, observed>>
    /\ UNCHANGED <<peer, procfs, notify, target>>

rc_prepare ==
    /\ pc = "rc_prepare"
    /\ \/ /\ clients' = clients \cup {"restoreContainer"}
          /\ pc' = "rc_open"
          /\ UNCHANGED <<ret, handles>>
       \/ Return(Err("failed to prepare CRIU", {}))
    /\ UNCHANGED <<ctr, proc, dirExists, files, entry, opNo, pid, info, opts, dumps,
                   attempts, calls, exitCode, loaded, restores, observed>>
    /\ UNCHANGED <<peer, procfs, notify, target>>

\* restoreContainer: the restore options.
RestoreOpts ==
    [EmptyOpts EXCEPT !.LogFile = "criu-restore.log",
        !.TcpEstablished = T, !.ExtUnixSk = T, !.ShellJob = F, !.FileLocks = T,
        !.ManageCgroups = F, !.OrphanPtsMaster = T, !.ExtMasters = T,
        !.SkipMnt = <<"/etc/resolv.conf", "/etc/hostname", "/etc/hosts",
                      "/dev/mqueue", "/proc/sys", "/proc/sysrq-trigger">>,
        !.EnableFs = <<"overlay", "proc", "sysfs", "devtmpfs", "tmpfs">>,
        !.ManageCgroupsMode = "IGNORE", !.RstSibling = F]

rc_open ==
    /\ pc = "rc_open"
    /\ \/ /\ dirExists
          /\ handles' = handles \cup {"restoreContainer"}
          /\ opts' = RestoreOpts
          /\ pc' = "rc_restore"
          /\ UNCHANGED <<ret, clients>>
       \/ /\ Return(Err("failed to open checkpoint directory", {}))
          /\ UNCHANGED opts
    /\ UNCHANGED <<ctr, proc, dirExists, files, entry, opNo, pid, info, dumps,
                   attempts, calls, exitCode, loaded, restores, observed>>
    /\ UNCHANGED <<peer, procfs, notify, target>>

\* The engine can restore only from a directory that holds images.
RestoreOutcomes == IF files["pstree.img"].op = 0 THEN {FALSE} ELSE {TRUE, FALSE}

RestoreRecord(by, o, ok) ==
    [by |-> by, opts |-> o, ok |-> ok, ctrRunning |-> ctr.running,
     metadataRead |-> loaded.read, calls |-> calls]

\* The files after an engine restore: its log.
FilesAfterRestore(by, o) ==
    [files EXCEPT ![o.LogFile] = [lines |-> <<>>, by |-> by, op |-> opNo]]

\* criuClient.Restore(opts, nil)
rc_restore ==
    /\ pc = "rc_restore"
    /\ \E ok \in RestoreOutcomes :
         /\ restores' = Append(restores, RestoreRecord("restoreContainer", opts, ok))
         /\ files' = FilesAfterRestore("restoreContainer", opts)
         /\ proc' = IF ok THEN "R" ELSE proc
         /\ IF ok
            THEN /\ pc' = "rc_verify"
                 /\ UNCHANGED <<ret, handles, clients>>
            ELSE Return(Err("CRIU restore failed", {"restoreContainer"}))
    /\ UNCHANGED <<ctr, dirExists, entry, opNo, pid, info, opts, dumps, attempts,
                   calls, exitCode, loaded, observed>>
    /\ UNCHANGED <<peer, procfs, notify, target>>

\* What the listing of the runtime's containers shows of the target.
Observe(c) ==
    IF ~c.exists THEN "not found"
    ELSE IF c.running /\ c.pid # 0 THEN "running"
    ELSE "not running"

\* What restoreContainer returns after it has looked at the runtime.
VerifyResult(obs) == Ok

\* Lines 126-153: one look at the runtime after the engine restore.
rc_verify ==
    /\ pc = "rc_verify"
    /\ \/ \* NewClientWithOpts or ContainerList failed: nothing is observed
          /\ observed' = "none"
          /\ UNCHANGED calls
          /\ Return(VerifyResult("none"))
       \/ /\ observed' = Observe(ctr)
          /\ calls' = Append(calls, [call |-> "list", ok |-> TRUE])
          /\ Return(VerifyResult(Observe(ctr)))
    /\ UNCHANGED <<ctr, proc, dirExists, files, entry, opNo, pid, info, opts, dumps,
                   attempts, exitCode, loaded, restores>>
    /\ UNCHANGED <<peer, procfs, notify, target>>

----------------------------------------------------------------------------
(* restoreContainerDirect (criu_direct.go 350-472), the later revision: it
   reads container.meta, replaces the container by a new one created from
   the recorded image, stops it and calls restoreProcessDirect. *)

call_restoreContainerDirect_350 ==
    Begin("restoreContainerDirect/350", "rcd2_readmeta", 0, "")

\* metadata[key] after the loop over the lines "<key>=<value>": the value of
\* the last such line, "" when there is none.
MapValue(lines, key) ==
    LET idx == {i \in 1..Len(lines) : lines[i].key = key}
    IN  IF idx = {} THEN ""
        ELSE lines[CHOOSE i \in idx : \A j \in idx : j <= i].val

\* Lines 351-396: os.Stat of pstree.img, os.ReadFile of container.meta and its
\* parse, os.ReadDir, then the Docker client.
rcd2_readmeta ==
    /\ pc = "rcd2_readmeta"
    /\ IF ~dirExists \/ files["pstree.img"].op = 0
       THEN /\ Return(Err("checkpoint files not found", {}))
            /\ UNCHANGED loaded
       ELSE IF files["container.meta"].op = 0
       THEN /\ Return(Err("failed to read metadata", {}))
            /\ UNCHANGED loaded
       ELSE /\ loaded' = [read |-> TRUE,
                          IMAGE |-> MapValue(files["container.meta"].lines, "IMAGE"),
                          PID |-> 0]
            /\ \/ /\ pc' = "rcd2_remove"
                  /\ UNCHANGED <<ret, handles, clients>>
               \/ Return(Err("failed to create Docker client", {}))
    /\ UNCHANGED <<ctr, proc, dirExists, files, entry, opNo, pid, info, opts, dumps,
                   attempts, calls, exitCode, restores, observed>>
    /\ UNCHANGED <<peer, procfs, notify, target>>

\* The container after ContainerStop and ContainerRemove(Force) whose results
\* are not looked at: a forced removal removes a running container too.
AfterStopRemove(c, stopOK, rmOK) ==
    IF ~c.exists THEN c
    ELSE IF rmOK THEN NoContainer
    ELSE IF c.running /\ stopOK THEN Stopped(c)
    ELSE c

\* The runtime calls of "if it exists, stop and remove it".
StopRemoveCalls(c, stopOK, rmOK) ==
    <<[call |-> "inspect", ok |-> c.exists]>> \o
    (IF c.exists THEN <<[call |-> "stop", ok |-> stopOK],
                        [call |-> "remove", ok |-> rmOK]>>
     ELSE <<>>)

\* Lines 398-409: the existing container, if any, is stopped and removed.
rcd2_remove ==
    /\ pc = "rcd2_remove"
    /\ \E stopOK \in BOOLEAN, rmOK \in BOOLEAN :
         /\ calls' = calls \o StopRemoveCalls(ctr, stopOK, rmOK)
         /\ ctr' = AfterStopRemove(ctr, stopOK, rmOK)
         /\ proc' = IF ctr.running /\ (stopOK \/ rmOK) THEN "none" ELSE proc
    /\ pc' = "rcd2_create"
    /\ UNCHANGED <<dirExists, files, entry, opNo, pid, info, opts, dumps, attempts,
                   handles, clients, ret, exitCode, loaded, restores, observed>>
    /\ UNCHANGED <<peer, procfs, notify, target>>

\* Lines 411-415: the image of the new container.
RecreateImage(recorded) == IF recorded = "" THEN "alpine:latest" ELSE recorded

\* ContainerCreate under the name of the target; the runtime refuses a name
\* that is in use.
CreateOutcomes(c) == IF c.exists THEN {FALSE} ELSE {TRUE, FALSE}

\* The container ContainerCreate makes.
Created(img) == [exists |-> TRUE, running |-> FALSE, pid |-> 0, image |-> img]

\* Lines 417-437: ContainerCreate with the command "sleep 3600".
rcd2_create ==
    /\ pc = "rcd2_create"
    /\ \E ok \in CreateOutcomes(ctr) :
         /\ calls' = Append(calls, [call |-> "create", ok |-> ok,
                                    image |-> RecreateImage(loaded.IMAGE)])
         /\ IF ok
            THEN /\ ctr' = Created(RecreateImage(loaded.IMAGE))
                 /\ pc' = "rcd2_start"
                 /\ UNCHANGED <<ret, handles, clients>>
            ELSE /\ Return(Err("failed to create container", {}))
                 /\ UNCHANGED ctr
    /\ UNCHANGED <<proc, dirExists, files, entry, opNo, pid, info, opts, dumps,
                   attempts, exitCode, loaded, restores, observed>>
    /\ UNCHANGED <<peer, procfs, notify, target>>

\* Lines 439-455: ContainerStart of the new container, which then runs its
\* placeholder command, and ContainerInspect for its process id.
rcd2_start ==
    /\ pc = "rcd2_start"
    /\ \E ok \in BOOLEAN, seen \in BOOLEAN :
         /\ calls' = calls \o <<[call |-> "start", ok |-> ok]>>
                           \o (IF ok THEN <<[call |-> "inspect", ok |-> seen]>>
                               ELSE <<>>)
         /\ ctr' = IF ok THEN Started(ctr) ELSE ctr
         /\ proc' = IF ok THEN "S" ELSE proc
         /\ IF ~ok THEN Return(Err("failed to start container", {}))
            ELSE IF ~seen THEN Return(Err("failed to inspect new container", {}))
            ELSE /\ pc' = "rcd2_stop"
                 /\ UNCHANGED <<ret, handles, clients>>
    /\ UNCHANGED <<dirExists, files, entry, opNo, pid, info, opts, dumps, attempts,
                   exitCode, loaded, restores, observed>>
    /\ UNCHANGED <<peer, procfs, notify, target>>

\* Lines 457-471: ContainerStop of the new container, whose failure ends the
\* restore, then return restoreProcessDirect(checkpointDir).
rcd2_stop ==
    /\ pc = "rcd2_stop"
    /\ \E ok \in BOOLEAN :
         /\ calls' = Append(calls, [call |-> "stop", ok |-> ok])
         /\ IF ok
            THEN /\ ctr' = Stopped(ctr)
                 /\ proc' = "none"
                 /\ pc' = "rpd_version"
                 /\ UNCHANGED <<ret, handles, clients>>
            ELSE /\ Return(Err("failed to stop container", {}))
                 /\ UNCHANGED <<ctr, proc>>
    /\ UNCHANGED <<dirExists, files, entry, opNo, pid, info, opts, dumps, attempts,
                   exitCode, loaded, restores, observed>>
    /\ UNCHANGED <<peer, procfs, notify, target>>

\* restoreProcessDirect (criu_direct.go 474-532): the restore options of the
\* later revision; the rest of the function is the text of lines 152-207.
DirectRestoreOpts_474 ==
    [EmptyOpts EXCEPT !.LogFile = "restore.log", !.TcpEstablished = T,
        !.ExtUnixSk = T, !.ShellJob = F, !.External = <<"mnt[]", "net[]">>,
        !.RstSibling = F]

DirectRestoreEntries == {"restoreContainerDirect", "restoreContainerDirect/350"}

----------------------------------------------------------------------------
(* restoreContainerDirect (criu_direct.go 125-150) and restoreProcessDirect
   (criu_direct.go 152-207) *)

call_restoreContainerDirect ==
    Begin("restoreContainerDirect", "rcd_stop", 0, "")

\* restoreContainerDirect hands the error of restoreProcessDirect to its caller.
rcd_return ==
    /\ pc = "return"
    /\ entry \in DirectRestoreEntries
    /\ pc' = "idle"
    /\ UNCHANGED <<ctr, proc, dirExists, files, entry, opNo, pid, info, opts, dumps,
                   attempts, handles, clients, calls, ret, exitCode, loaded, restores,
                   observed>>
    /\ UNCHANGED <<peer, procfs, notify, target>>

\* Lines 128-146: the Docker client, then "stop container if running"; the
\* result of ContainerStop is not looked at.
rcd_stop ==
    /\ pc = "rcd_stop"
    /\ \/ /\ Return(Err("failed to create Docker client", {}))
          /\ UNCHANGED <<ctr, proc, calls>>
       \/ \E stopOK \in BOOLEAN :
            /\ calls' = calls \o StopCalls(ctr, stopOK)
            /\ ctr' = IF ctr.running /\ stopOK THEN Stopped(ctr) ELSE ctr
            /\ proc' = IF stopOK THEN ProcAfterStop(ctr) ELSE proc
            /\ pc' = "rpd_version"
            /\ UNCHANGED <<ret, handles, clients>>
    /\ UNCHANGED <<dirExists, files, entry, opNo, pid, info, opts, dumps, attempts,
                   exitCode, loaded, restores, observed>>
    /\ UNCHANGED <<peer, procfs, notify, target>>

rpd_version ==
    /\ pc = "rpd_version"
    /\ \/ /\ pc' = "rpd_prepare"
          /\ UNCHANGED <<ret, handles, clients>>
       \/ Return(Err("CRIU check failed", {}))
    /\ UNCHANGED <<ctr, proc, dirExists, files, entry, opNo, pid, info, opts, dumps,
                   attempts, calls, exitCode, loaded, restores, observed>>
    /\ UNCHANGED <<peer, procfs, notify, target>>

rpd_prepare ==
    /\ pc = "rpd_prepare"
    /\ \/ /\ clients' = clients \cup {"restoreProcessDirect"}
          /\ pc' = "rpd_open"
          /\ UNCHANGED <<ret, handles>>
       \/ Return(Err("failed to prepare CRIU", {}))
    /\ UNCHANGED <<ctr, proc, dirExists, files, entry, opNo, pid, info, opts, dumps,
                   attempts, calls, exitCode, loaded, restores, observed>>
    /\ UNCHANGED <<peer, procfs, notify, target>>

\* restoreProcessDirect: the restore options.
DirectRestoreOpts ==
    [EmptyOpts EXCEPT !.LogFile = "restore.log", !.TcpEstablished = T,
        !.ExtUnixSk = T, !.ShellJob = F, !.External = <<"mnt[]">>]

rpd_open ==
    /\ pc = "rpd_open"
    /\ \/ /\ dirExists
          /\ handles' = handles \cup {"restoreProcessDirect"}
          /\ opts' = IF entry = "restoreContainerDirect/350"
                     THEN DirectRestoreOpts_474 ELSE DirectRestoreOpts
          /\ pc' = "rpd_restore"
          /\ UNCHANGED <<ret, clients>>
       \/ /\ Return(Err("failed to open checkpoint directory", {}))
          /\ UNCHANGED opts
    /\ UNCHANGED <<ctr, proc, dirExists, files, entry, opNo, pid, info, dumps,
                   attempts, calls, exitCode, loaded, restores, observed>>
    /\ UNCHANGED <<peer, procfs, notify, target>>

\* criuClient.Restore(opts, notify)
rpd_restore ==
    /\ pc = "rpd_restore"
    /\ \E ok \in RestoreOutcomes :
         /\ restores' = Append(restores, RestoreRecord("restoreProcessDirect", opts, ok))
         /\ files' = FilesAfterRestore("restoreProcessDirect", opts)
         /\ proc' = IF ok THEN "R" ELSE proc
         /\ Return(IF ok THEN Ok ELSE Err("restore failed", {"restoreProcessDirect"}))
    /\ UNCHANGED <<ctr, dirExists, entry, opNo, pid, info, opts, dumps, attempts,
                   calls, exitCode, loaded, observed>>
    /\ UNCHANGED <<peer, procfs, notify, target>>

----------------------------------------------------------------------------
(* restoreContainerDocker (docker_checkpoint.go 86-197) *)

call_restoreContainerDocker ==
    Begin("restoreContainerDocker", "rcdk_readmeta", 0, "")

\* fmt.Sscanf(metadata, "CONTAINER_ID=%s\nCONTAINER_NAME=%s\nIMAGE=%s\n", ...):
\* the image is scanned only when the three keys come first and in this order.
ScanMetadata(lines) ==
    [read |-> TRUE,
     IMAGE |-> IF /\ Len(lines) >= 3
                  /\ lines[1].key = "CONTAINER_ID" /\ lines[1].val # ""
                  /\ lines[2].key = "CONTAINER_NAME" /\ lines[2].val # ""
                  /\ lines[3].key = "IMAGE"
               THEN lines[3].val ELSE "",
     PID |-> 0]

\* Lines 89-113: the Docker client, then the metadata file.
rcdk_readmeta ==
    /\ pc = "rcdk_readmeta"
    /\ \/ /\ Return(Err("failed to create Docker client", {}))
          /\ UNCHANGED loaded
       \/ IF dirExists /\ files["container.info"].op # 0
          THEN /\ loaded' = ScanMetadata(files["container.info"].lines)
               /\ pc' = "rcdk_native"
               /\ UNCHANGED <<ret, handles, clients>>
          ELSE /\ Return(Err("failed to read metadata file", {}))
               /\ UNCHANGED loaded
    /\ UNCHANGED <<ctr, proc, dirExists, files, entry, opNo, pid, info, opts, dumps,
                   attempts, calls, exitCode, restores, observed>>
    /\ UNCHANGED <<peer, procfs, notify, target>>

\* ContainerStart from a checkpoint can succeed only when the directory holds
\* images.
StartOutcomes == IF files["pstree.img"].op = 0 THEN {FALSE} ELSE {TRUE, FALSE}

\* Lines 115-142: inspect; a container that exists and is stopped is started
\* from the checkpoint, and the function returns nil when it is then seen
\* running.  In every other case it goes on to recreate the container.
rcdk_native ==
    /\ pc = "rcdk_native"
    /\ IF ctr.exists /\ ~ctr.running
       THEN \E ok \in StartOutcomes, seen \in BOOLEAN :
              /\ calls' = calls \o <<[call |-> "inspect", ok |-> TRUE],
                                     [call |-> "start_checkpoint", ok |-> ok]>>
                                \o (IF ok THEN <<[call |-> "inspect", ok |-> seen]>>
                                    ELSE <<>>)
              /\ ctr' = IF ok THEN Started(ctr) ELSE ctr
              /\ proc' = IF ok THEN "R" ELSE proc
              /\ observed' = IF ok /\ seen THEN Observe(Started(ctr)) ELSE observed
              /\ IF ok /\ seen
                 THEN Return(Ok)
                 ELSE /\ pc' = "rcdk_create"
                      /\ UNCHANGED <<ret, handles, clients>>
       ELSE /\ calls' = Append(calls, [call |-> "inspect", ok |-> ctr.exists])
            /\ pc' = "rcdk_create"
            /\ UNCHANGED <<ctr, proc, observed, ret, handles, clients>>
    /\ UNCHANGED <<dirExists, files, entry, opNo, pid, info, opts, dumps, attempts,
                   exitCode, loaded, restores>>
    /\ UNCHANGED <<peer, procfs, notify, target>>

\* Lines 144-164: ContainerCreate from the recorded image under the name of
\* the target; the runtime refuses a name that is in use.
rcdk_create ==
    /\ pc = "rcdk_create"
    /\ \E ok \in (IF ctr.exists \/ loaded.IMAGE = "" THEN {FALSE} ELSE {TRUE, FALSE}) :
         /\ calls' = Append(calls, [call |-> "create", ok |-> ok, image |-> loaded.IMAGE])
         /\ IF ok
            THEN /\ ctr' = [exists |-> TRUE, running |-> FALSE, pid |-> 0,
                             image |-> loaded.IMAGE]
                 /\ pc' = "rcdk_start"
                 /\ UNCHANGED <<ret, handles, clients>>
            ELSE /\ Return(Err("failed to create container", {}))
                 /\ UNCHANGED ctr
    /\ UNCHANGED <<proc, dirExists, files, entry, opNo, pid, info, opts, dumps,
                   attempts, exitCode, loaded, restores, observed>>
    /\ UNCHANGED <<peer, procfs, notify, target>>

\* Lines 166-181: ContainerStart from the checkpoint on the new container and,
\* when that fails, a normal ContainerStart.
rcdk_start ==
    /\ pc = "rcdk_start"
    /\ \E okc \in StartOutcomes, okn \in BOOLEAN :
         /\ calls' = calls \o <<[call |-> "start_checkpoint", ok |-> okc]>>
                           \o (IF okc THEN <<>> ELSE <<[call |-> "start", ok |-> okn]>>)
         /\ IF okc \/ okn
            THEN /\ ctr' = Started(ctr)
                 /\ proc' = "R"
                 /\ pc' = "rcdk_verify"
                 /\ UNCHANGED <<ret, handles, clients>>
            ELSE /\ Return(Err("failed to start container", {}))
                 /\ UNCHANGED <<ctr, proc>>
    /\ UNCHANGED <<dirExists, files, entry, opNo, pid, info, opts, dumps, attempts,
                   exitCode, loaded, restores, observed>>
    /\ UNCHANGED <<peer, procfs, notify, target>>

\* Lines 183-196: one inspect; a container that is not running is a warning.
rcdk_verify ==
    /\ pc = "rcdk_verify"
    /\ \/ /\ calls' = Append(calls, [call |-> "inspect", ok |-> FALSE])
          /\ UNCHANGED observed
          /\ Return(Err("failed to inspect restored container", {}))
       \/ /\ calls' = Append(calls, [call |-> "inspect", ok |-> TRUE])
          /\ observed' = Observe(ctr)
          /\ Return(Ok)
    /\ UNCHANGED <<ctr, proc, dirExists, files, entry, opNo, pid, info, opts, dumps,
                   attempts, exitCode, loaded, restores>>
    /\ UNCHANGED <<peer, procfs, notify, target>>

----------------------------------------------------------------------------
(* restoreContainerDocker (unnamed/part_001 85-127): the revision that falls
   back to restoreContainer. *)

call_restoreContainerDocker_part_001 ==
    Begin("restoreContainerDocker/part_001", "rcdf_start", 0, "")

\* Lines 88-110: the Docker client, ContainerStart from the checkpoint and, when
\* that fails, return restoreContainer(containerID, checkpointDir).
rcdf_start ==
    /\ pc = "rcdf_start"
    /\ \/ /\ Return(Err("failed to create Docker client", {}))
          /\ UNCHANGED <<ctr, proc, calls>>
       \/ \E ok \in (IF ctr.exists /\ ~ctr.running THEN StartOutcomes ELSE {FALSE}) :
            /\ calls' = Append(calls, [call |-> "start_checkpoint", ok |-> ok])
            /\ ctr' = IF ok THEN Started(ctr) ELSE ctr
            /\ proc' = IF ok THEN "R" ELSE proc
            /\ pc' = IF ok THEN "rcdf_verify" ELSE "rc_readmeta"
            /\ UNCHANGED <<ret, handles, clients>>
    /\ UNCHANGED <<dirExists, files, entry, opNo, pid, info, opts, dumps, attempts,
                   exitCode, loaded, restores, observed>>
    /\ UNCHANGED <<peer, procfs, notify, target>>

\* Lines 112-126: one inspect; a container that is not running is a warning.
rcdf_verify ==
    /\ pc = "rcdf_verify"
    /\ \/ /\ calls' = Append(calls, [call |-> "inspect", ok |-> FALSE])
          /\ UNCHANGED observed
          /\ Return(Err("failed to inspect restored container", {}))
       \/ /\ calls' = Append(calls, [call |-> "inspect", ok |-> TRUE])
          /\ observed' = Observe(ctr)
          /\ Return(Ok)
    /\ UNCHANGED <<ctr, proc, dirExists, files, entry, opNo, pid, info, opts, dumps,
                   attempts, exitCode, loaded, restores>>
    /\ UNCHANGED <<peer, procfs, notify, target>>

DockerRestoreEntries == {"restoreContainerDocker", "restoreContainerDocker/part_001"}

\* Either revision hands its error to its caller.
rcdk_return ==
    /\ pc = "return"
    /\ entry \in DockerRestoreEntries
    /\ pc' = "idle"
    /\ UNCHANGED <<ctr, proc, dirExists, files, entry, opNo, pid, info, opts, dumps,
                   attempts, handles, clients, calls, ret, exitCode, loaded, restores,
                   observed>>
    /\ UNCHANGED <<peer, procfs, notify, target>>

----------------------------------------------------------------------------
(* checkpointContainerDirect (criu_direct.go 243-284) and
   checkpointProcessDirect (criu_direct.go 286-347) *)

call_checkpointContainerDirect ==
    Begin("checkpointContainerDirect", "ccd_inspect", 0, "")

\* Lines 246-262: the Docker client, ContainerInspect and the running check;
\* the process id the runtime reports is taken as it is.
ccd_inspect ==
    /\ pc = "ccd_inspect"
    /\ \/ /\ Return(Err("failed to create Docker client", {}))
          /\ UNCHANGED <<calls, pid>>
       \/ /\ calls' = Append(calls, [call |-> "inspect", ok |-> ctr.exists])
          /\ \/ /\ ~ctr.exists
                /\ Return(Err("failed to inspect container", {}))
                /\ UNCHANGED pid
             \/ /\ ctr.exists /\ ~ctr.running
                /\ Return(Err("container is not running", {}))
                /\ UNCHANGED pid
             \/ /\ ctr.running
                /\ pid' = ctr.pid
                /\ pc' = "ccd_mkdir"
                /\ UNCHANGED <<ret, handles, clients>>
    /\ UNCHANGED <<ctr, proc, dirExists, files, entry, opNo, info, opts, dumps,
                   attempts, exitCode, loaded, restores, observed>>
    /\ UNCHANGED <<peer, procfs, notify, target>>

ccd_mkdir ==
    /\ pc = "ccd_mkdir"
    /\ MkdirAll("ccd_writemeta")
    /\ UNCHANGED <<ctr, proc, files, entry, opNo, pid, info, opts, dumps, attempts,
                   calls, exitCode, loaded, restores, observed>>
    /\ UNCHANGED <<peer, procfs, notify, target>>

\* Lines 270-280: os.WriteFile(container.meta, metadata).
ccd_writemeta ==
    /\ pc = "ccd_writemeta"
    /\ WriteMetadata("container.meta", "cpd_version")
    /\ UNCHANGED <<ctr, proc, dirExists, entry, opNo, pid, info, opts, dumps,
                   attempts, calls, exitCode, loaded, restores, observed>>
    /\ UNCHANGED <<peer, procfs, notify, target>>

cpd_version ==
    /\ pc = "cpd_version"
    /\ \/ /\ pc' = "cpd_prepare"
          /\ UNCHANGED <<ret, handles, clients>>
       \/ Return(Err("CRIU check failed", {}))
    /\ UNCHANGED <<ctr, proc, dirExists, files, entry, opNo, pid, info, opts, dumps,
                   attempts, calls, exitCode, loaded, restores, observed>>
    /\ UNCHANGED <<peer, procfs, notify, target>>

cpd_prepare ==
    /\ pc = "cpd_prepare"
    /\ \/ /\ clients' = clients \cup {"checkpointProcessDirect"}
          /\ pc' = "cpd_open"
          /\ UNCHANGED <<ret, handles>>
       \/ Return(Err("failed to prepare CRIU", {}))
    /\ UNCHANGED <<ctr, proc, dirExists, files, entry, opNo, pid, info, opts, dumps,
                   attempts, calls, exitCode, loaded, restores, observed>>
    /\ UNCHANGED <<peer, procfs, notify, target>>

\* checkpointProcessDirect: the options.
DirectOpts(p) ==
    [EmptyOpts EXCEPT !.Pid = p, !.LogFile = "dump.log", !.LeaveRunning = T,
        !.TcpEstablished = T, !.ExtUnixSk = T, !.ShellJob = F,
        !.External = <<"mnt[]">>]

cpd_open ==
    /\ pc = "cpd_open"
    /\ \/ /\ dirExists
          /\ handles' = handles \cup {"checkpointProcessDirect"}
          /\ opts' = DirectOpts(pid)
          /\ pc' = "cpd_dump"
          /\ UNCHANGED <<ret, clients>>
       \/ /\ Return(Err("failed to open checkpoint directory", {}))
          /\ UNCHANGED opts
    /\ UNCHANGED <<ctr, proc, dirExists, files, entry, opNo, pid, info, dumps,
                   attempts, calls, exitCode, loaded, restores, observed>>
    /\ UNCHANGED <<peer, procfs, notify, target>>

\* criuClient.Dump(opts, notify); there is no process 0 for the engine to dump.
cpd_dump ==
    /\ pc = "cpd_dump"
    /\ \E ok \in DumpOutcomes(IF pid = 0 THEN "none" ELSE proc) :
         /\ dumps' = Append(dumps, DumpRecord("checkpointProcessDirect", opts, ok))
         /\ files' = FilesAfterDump("checkpointProcessDirect", opts, ok)
         /\ proc' = ProcAfterDump(opts, ok)
         /\ ctr' = CtrAfterDump(opts, ok)
         /\ attempts' = Append(attempts, [by |-> "checkpointProcessDirect", ok |-> ok])
         /\ Return(IF ok THEN Ok
                   ELSE Err("checkpoint failed", {"checkpointProcessDirect"}))
    /\ UNCHANGED <<dirExists, entry, opNo, pid, info, opts, calls, exitCode, loaded,
                   restores, observed>>
    /\ UNCHANGED <<peer, procfs, notify, target>>

\* checkpointContainerDirect hands the error to its caller.
ccd_return ==
    /\ pc = "return"
    /\ entry = "checkpointContainerDirect"
    /\ pc' = "idle"
    /\ UNCHANGED <<ctr, proc, dirExists, files, entry, opNo, pid, info, opts, dumps,
                   attempts, handles, clients, calls, ret, exitCode, loaded, restores,
                   observed>>
    /\ UNCHANGED <<peer, procfs, notify, target>>

----------------------------------------------------------------------------
(* restoreSimpleProcess: main.go 57-62 calls it for "restore <dir>"; its text
   is not among the sources.  It is modelled after the restore state machine of
   the specification: the record is loaded (its absence is an error), then the
   engine restore is invoked and its failure is terminal. *)

main_restore_process ==
    Begin("restoreSimpleProcess", "rsp_restore", 0, "")

rsp_restore ==
    /\ pc = "rsp_restore"
    /\ IF ~dirExists \/ \A f \in {"container.info", "container.meta"} : files[f].op = 0
       THEN /\ Return(Err("missing metadata", {}))
            /\ UNCHANGED <<restores, proc, loaded>>
       ELSE \E ok \in RestoreOutcomes :
              /\ loaded' = [NoLoaded EXCEPT !.read = TRUE]
              /\ restores' = Append(restores,
                                    RestoreRecord("restoreSimpleProcess", EmptyOpts, ok))
              /\ proc' = IF ok THEN "R" ELSE proc
              /\ Return(IF ok THEN Ok
                        ELSE Err("restore failed", {"restoreSimpleProcess"}))
    /\ UNCHANGED <<ctr, dirExists, files, entry, opNo, pid, info, opts, dumps, attempts,
                   calls, exitCode, observed>>
    /\ UNCHANGED <<peer, procfs, notify, target>>

----------------------------------------------------------------------------
(* restoreContainerWithRecreate (restore.go 252-344) *)

call_restoreContainerWithRecreate ==
    Begin("restoreContainerWithRecreate", "rwr_readmeta", 0, "")

\* readMetadata (restore.go 346-369): container.meta or, when that cannot be
\* opened, docker-checkpoint.info; "none" when neither can.
readMetadata ==
    IF ~dirExists THEN "none"
    ELSE IF files["container.meta"].op # 0 THEN "container.meta"
    ELSE IF files["docker-checkpoint.info"].op # 0 THEN "docker-checkpoint.info"
    ELSE "none"

\* Lines 256-268: readMetadata, then the Docker client.
rwr_readmeta ==
    /\ pc = "rwr_readmeta"
    /\ IF readMetadata = "none"
       THEN /\ Return(Err("failed to read metadata", {}))
            /\ UNCHANGED loaded
       ELSE /\ loaded' = [read |-> TRUE,
                          IMAGE |-> MapValue(files[readMetadata].lines, "IMAGE"),
                          PID |-> 0]
            /\ \/ /\ pc' = "rwr_recreate"
                  /\ UNCHANGED <<ret, handles, clients>>
               \/ Return(Err("failed to create Docker client", {}))
    /\ UNCHANGED <<ctr, proc, dirExists, files, entry, opNo, pid, info, opts, dumps,
                   attempts, calls, exitCode, restores, observed>>
    /\ UNCHANGED <<peer, procfs, notify, target>>

\* Lines 275-305: originalImage is the image of the container that bears the
\* identifier when there is one, and the recorded image or "alpine:latest"
\* when there is none.
OriginalImage(c, recorded) == IF c.exists THEN c.image ELSE RecreateImage(recorded)

\* Lines 275-313: inspect; the container that exists is stopped and removed,
\* the results not looked at; then ContainerCreate from originalImage.
rwr_recreate ==
    /\ pc = "rwr_recreate"
    /\ \E stopOK \in BOOLEAN, rmOK \in BOOLEAN :
         \E ok \in CreateOutcomes(AfterStopRemove(ctr, stopOK, rmOK)) :
           /\ calls' = calls \o StopRemoveCalls(ctr, stopOK, rmOK)
                             \o <<[call |-> "create", ok |-> ok,
                                   image |-> OriginalImage(ctr, loaded.IMAGE)]>>
           /\ proc' = IF ctr.running /\ (stopOK \/ rmOK) THEN "none" ELSE proc
           /\ IF ok
              THEN /\ ctr' = Created(OriginalImage(ctr, loaded.IMAGE))
                   /\ pc' = "rwr_start"
                   /\ UNCHANGED <<ret, handles, clients>>
              ELSE /\ ctr' = AfterStopRemove(ctr, stopOK, rmOK)
                   /\ Return(Err("failed to create container", {}))
    /\ UNCHANGED <<dirExists, files, entry, opNo, pid, info, opts, dumps, attempts,
                   exitCode, loaded, restores, observed>>
    /\ UNCHANGED <<peer, procfs, notify, target>>

\* Lines 317-343: ContainerStart of the new container and one inspect; the
\* function then reports success, the engine is not called.
rwr_start ==
    /\ pc = "rwr_start"
    /\ \E ok \in BOOLEAN, seen \in BOOLEAN :
         /\ calls' = calls \o <<[call |-> "start", ok |-> ok]>>
                           \o (IF ok THEN <<[call |-> "inspect", ok |-> seen]>>
                               ELSE <<>>)
         /\ ctr' = IF ok THEN Started(ctr) ELSE ctr
         /\ proc' = IF ok THEN "S" ELSE proc
         /\ IF ~ok THEN Return(Err("failed to start container", {}))
            ELSE IF ~seen THEN Return(Err("failed to inspect new container", {}))
            ELSE Return(Ok)
    /\ UNCHANGED <<dirExists, files, entry, opNo, pid, info, opts, dumps, attempts,
                   exitCode, loaded, restores, observed>>
    /\ UNCHANGED <<peer, procfs, notify, target>>

----------------------------------------------------------------------------
(* checkpointDockerNative, restoreDockerNative and restoreWithCheckpoint
   (docker_native.go 17-182).  The identifier is taken to be at least twelve
   characters long, as containerID[:12] needs it. *)

call_checkpointDockerNative ==
    Begin("checkpointDockerNative", "cdn_inspect", 0, "")

\* Lines 20-36: the Docker client, ContainerInspect and the running check.
cdn_inspect ==
    /\ pc = "cdn_inspect"
    /\ \/ /\ Return(Err("failed to create Docker client", {}))
          /\ UNCHANGED calls
       \/ /\ calls' = Append(calls, [call |-> "inspect", ok |-> ctr.exists])
          /\ IF ~ctr.exists THEN Return(Err("failed to inspect container", {}))
             ELSE IF ~ctr.running THEN Return(Err("container is not running", {}))
             ELSE /\ pc' = "cdn_mkdir"
                  /\ UNCHANGED <<ret, handles, clients>>
    /\ UNCHANGED <<ctr, proc, dirExists, files, entry, opNo, pid, info, opts, dumps,
                   attempts, exitCode, loaded, restores, observed>>
    /\ UNCHANGED <<peer, procfs, notify, target>>

cdn_mkdir ==
    /\ pc = "cdn_mkdir"
    /\ MkdirAll("cdn_checkpoint")
    /\ UNCHANGED <<ctr, proc, files, entry, opNo, pid, info, opts, dumps, attempts,
                   calls, exitCode, loaded, restores, observed>>
    /\ UNCHANGED <<peer, procfs, notify, target>>

\* The text of docker-checkpoint.info.
NativeMetadataLines(id, checkpointID, image) ==
    << [key |-> "CONTAINER_ID", val |-> id],
       [key |-> "CHECKPOINT_ID", val |-> checkpointID],
       [key |-> "IMAGE", val |-> image] >>

\* The directory the runtime keeps the checkpoint "checkpoint-<id>" in.
CheckpointSubdir == "checkpoint-c1"

\* Lines 44-97: CheckpointCreate with Exit false, which leaves the checkpoint
\* in its own subdirectory, then os.WriteFile of docker-checkpoint.info, whose
\* failure is a warning.
cdn_checkpoint ==
    /\ pc = "cdn_checkpoint"
    /\ \E ok \in BOOLEAN, wrote \in BOOLEAN :
         /\ calls' = Append(calls, [call |-> "checkpoint", ok |-> ok])
         /\ IF ok
            THEN /\ files' = [f \in FileNames |->
                                IF f = CheckpointSubdir
                                THEN [lines |-> <<>>, by |-> entry, op |-> opNo]
                                ELSE IF wrote /\ f = "docker-checkpoint.info"
                                THEN [lines |-> NativeMetadataLines(ContainerID,
                                                    CheckpointSubdir, ctr.image),
                                      by |-> entry, op |-> opNo]
                                ELSE files[f]]
                 /\ Return(Ok)
            ELSE /\ UNCHANGED files
                 /\ Return(Err("Docker checkpoint failed", {}))
    /\ UNCHANGED <<ctr, proc, dirExists, entry, opNo, pid, info, opts, dumps,
                   attempts, exitCode, loaded, restores, observed>>
    /\ UNCHANGED <<peer, procfs, notify, target>>

call_restoreDockerNative ==
    Begin("restoreDockerNative", "rdn_readmeta", 0, "")

\* part_004 123-160: the same function in the revision whose
\* restoreWithCheckpoint removes the container.
call_restoreDockerNative_part_004 ==
    Begin("restoreDockerNative/part_004", "rdn_readmeta", 0, "")

\* regexp CHECKPOINT_ID=(.+): the value of the first line that has one.
FirstValue(lines, key) ==
    LET idx == {i \in 1..Len(lines) : lines[i].key = key /\ lines[i].val # ""}
    IN  IF idx = {} THEN ""
        ELSE lines[CHOOSE i \in idx : \A j \in idx : i <= j].val

\* Lines 115-124: the first entry of the directory that is itself a directory
\* with a name longer than ten characters, "" when there is none.
GuessCheckpointID ==
    IF dirExists /\ files[CheckpointSubdir].op # 0 THEN CheckpointSubdir ELSE ""

\* Lines 104-140: the Docker client, then the checkpoint identifier: from
\* docker-checkpoint.info when it can be read, guessed from the entries of
\* the directory when it cannot.
rdn_readmeta ==
    /\ pc = "rdn_readmeta"
    /\ \/ /\ Return(Err("failed to create Docker client", {}))
          /\ UNCHANGED loaded
       \/ IF dirExists /\ files["docker-checkpoint.info"].op # 0
          THEN /\ loaded' = [read |-> TRUE, IMAGE |-> "", PID |-> 0]
               /\ IF FirstValue(files["docker-checkpoint.info"].lines,
                                "CHECKPOINT_ID") = ""
                  THEN Return(Err("could not determine checkpoint ID", {}))
                  ELSE /\ pc' = "rwc_stop"
                       /\ UNCHANGED <<ret, handles, clients>>
          ELSE /\ UNCHANGED loaded
               /\ IF GuessCheckpointID = ""
                  THEN Return(Err("no checkpoint found", {}))
                  ELSE /\ pc' = "rwc_stop"
                       /\ UNCHANGED <<ret, handles, clients>>
    /\ UNCHANGED <<ctr, proc, dirExists, files, entry, opNo, pid, info, opts, dumps,
                   attempts, calls, exitCode, restores, observed>>
    /\ UNCHANGED <<peer, procfs, notify, target>>

\* restoreWithCheckpoint 148-156: inspect, and ContainerStop of a running
\* container, its result not looked at.
rwc_stop ==
    /\ pc = "rwc_stop"
    /\ entry = "restoreDockerNative"
    /\ \E stopOK \in BOOLEAN :
         /\ calls' = calls \o StopCalls(ctr, stopOK)
         /\ ctr' = IF ctr.running /\ stopOK THEN Stopped(ctr) ELSE ctr
         /\ proc' = IF stopOK THEN ProcAfterStop(ctr) ELSE proc
    /\ pc' = "rwc_start"
    /\ UNCHANGED <<dirExists, files, entry, opNo, pid, info, opts, dumps, attempts,
                   handles, clients, ret, exitCode, loaded, restores, observed>>
    /\ UNCHANGED <<peer, procfs, notify, target>>

\* The runtime calls of part_004 167-184: inspect, stop if running, remove.
RemoveCalls(c, stopOK, rmOK) ==
    <<[call |-> "inspect", ok |-> c.exists]>> \o
    (IF c.exists /\ c.running THEN <<[call |-> "stop", ok |-> stopOK]>> ELSE <<>>) \o
    (IF c.exists THEN <<[call |-> "remove", ok |-> rmOK]>> ELSE <<>>)

\* restoreWithCheckpoint of part_004, lines 167-184: when the inspect
\* succeeds, ContainerStop of a running container and then ContainerRemove
\* with Force, neither result looked at.
rwc_remove ==
    /\ pc = "rwc_stop"
    /\ entry = "restoreDockerNative/part_004"
    /\ \E stopOK \in BOOLEAN, rmOK \in BOOLEAN :
         /\ calls' = calls \o RemoveCalls(ctr, stopOK, rmOK)
         /\ ctr' = AfterStopRemove(ctr, stopOK, rmOK)
         /\ proc' = IF ctr.running /\ (stopOK \/ rmOK) THEN "none" ELSE proc
    /\ pc' = "rwc_start"
    /\ UNCHANGED <<dirExists, files, entry, opNo, pid, info, opts, dumps, attempts,
                   handles, clients, ret, exitCode, loaded, restores, observed>>
    /\ UNCHANGED <<peer, procfs, notify, target>>

\* The runtime starts from a checkpoint only a stopped container whose
\* checkpoint it finds.
NativeStartOutcomes ==
    IF ctr.exists /\ ~ctr.running /\ dirExists /\ files[CheckpointSubdir].op # 0
    THEN {TRUE, FALSE} ELSE {FALSE}

\* restoreWithCheckpoint 158-181: ContainerStart from the checkpoint, then one
\* inspect; a container that is not running is an error.
rwc_start ==
    /\ pc = "rwc_start"
    /\ \E ok \in NativeStartOutcomes, seen \in BOOLEAN, stays \in BOOLEAN :
         /\ calls' = calls \o <<[call |-> "start_checkpoint", ok |-> ok]>>
                           \o (IF ok THEN <<[call |-> "inspect", ok |-> seen]>>
                               ELSE <<>>)
         /\ ctr' = IF ok /\ stays THEN Started(ctr) ELSE ctr
         /\ proc' = IF ok /\ stays THEN "R" ELSE proc
         /\ observed' = IF ok /\ seen
                        THEN Observe(IF stays THEN Started(ctr) ELSE ctr)
                        ELSE observed
         /\ IF ~ok THEN Return(Err("failed to restore container from checkpoint", {}))
            ELSE IF ~seen THEN Return(Err("failed to inspect restored container", {}))
            ELSE IF ~stays THEN Return(Err("container restored but not running", {}))
            ELSE Return(Ok)
    /\ UNCHANGED <<dirExists, files, entry, opNo, pid, info, opts, dumps, attempts,
                   exitCode, loaded, restores>>
    /\ UNCHANGED <<peer, procfs, notify, target>>

NativeEntries ==
    {"restoreContainerWithRecreate", "checkpointDockerNative", "restoreDockerNative",
     "restoreDockerNative/part_004"}

\* Each of these functions hands its error to its caller.
native_return ==
    /\ pc = "return"
    /\ entry \in NativeEntries
    /\ pc' = "idle"
    /\ UNCHANGED <<ctr, proc, dirExists, files, entry, opNo, pid, info, opts, dumps,
                   attempts, handles, clients, calls, ret, exitCode, loaded, restores,
                   observed>>
    /\ UNCHANGED <<peer, procfs, notify, target>>

----------------------------------------------------------------------------
(* The operator between two invocations, as the test scripts do it. *)

\* kill -9 of the target process (test_simple.sh 47); a container whose main
\* process is killed stops.
operator_kill ==
    /\ pc = "idle"
    /\ proc # "none"
    /\ proc' = "none"
    /\ ctr' = IF ctr.running THEN Stopped(ctr) ELSE ctr
    /\ UNCHANGED <<dirExists, files, pc, entry, opNo, pid, info, opts, dumps, attempts,
                   handles, clients, calls, ret, exitCode, loaded, restores, observed>>
    /\ UNCHANGED <<peer, procfs, notify, target>>

\* docker rm -f of the target container (part_003 9).
operator_remove ==
    /\ pc = "idle"
    /\ ctr.exists
    /\ ctr' = NoContainer
    /\ proc' = IF ctr.running THEN "none" ELSE proc
    /\ UNCHANGED <<dirExists, files, pc, entry, opNo, pid, info, opts, dumps, attempts,
                   handles, clients, calls, ret, exitCode, loaded, restores, observed>>
    /\ UNCHANGED <<peer, procfs, notify, target>>

\* docker run -d --name <id> <image> sleep 300 (part_003 13): a new container
\* under the same name; the runtime refuses a name that is in use.
operator_run ==
    /\ pc = "idle"
    /\ ~ctr.exists
    /\ \E img \in ImageRef :
         ctr' = [exists |-> TRUE, running |-> TRUE, pid |-> 1, image |-> img]
    /\ proc' = "S"
    /\ UNCHANGED <<dirExists, files, pc, entry, opNo, pid, info, opts, dumps, attempts,
                   handles, clients, calls, ret, exitCode, loaded, restores, observed>>
    /\ UNCHANGED <<peer, procfs, notify, target>>

Operator == operator_kill \/ operator_remove \/ operator_run

----------------------------------------------------------------------------
(* A second docker-cr process running checkpointDockerContainer for the same
   target and the same directory while the first invocation is in flight.
   Nothing in the code makes one process wait for or refuse the other.  The
   steps of the second process that touch what the first one shares with it
   are modelled: the directory, the record, the engine dumps and their logs. *)

MainVars == <<ctr, proc, pc, entry, opNo, pid, info, opts, dumps, attempts, handles,
              clients, calls, ret, exitCode, loaded, restores, observed, procfs,
              notify, target>>

\* What the second process leaves in a file it writes.
PeerFile(lines) == [lines |-> lines, by |-> "peer", op |-> opNo + MaxOps]

\* The positions at which the first invocation is at its engine call.
EngineSteps == {"cdp_dump", "cwm_dump", "csp_dump", "cc_dump", "rc_restore",
                "rpd_restore"}

\* checkpoint_docker.go 15-38: started while the first invocation is at its
\* engine call; ContainerInspect and the running / pid checks.
peer_start ==
    /\ peer.pc = "idle"
    /\ pc \in EngineSteps
    /\ peer' = [pc |-> IF ctr.running /\ ctr.pid # 0 THEN "cdc_mkdir" ELSE "done",
                during |-> pc]
    /\ UNCHANGED MainVars
    /\ UNCHANGED <<dirExists, files>>

\* checkpoint_docker.go 40-54: MkdirAll, then WriteFile of container.info.
peer_record ==
    /\ peer.pc = "cdc_mkdir"
    /\ \/ /\ dirExists' = TRUE
          /\ files' = [files EXCEPT !["container.info"] =
                         PeerFile(MetadataLines(ContainerID, ContainerID, ctr.image,
                                                ctr.pid))]
          /\ peer' = [peer EXCEPT !.pc = "cdp_dump"]
       \/ /\ peer' = [peer EXCEPT !.pc = "done"]
          /\ UNCHANGED <<dirExists, files>>
    /\ UNCHANGED MainVars

\* checkpoint_docker.go 109-122: the dump of checkpointDockerProcess.
peer_dump ==
    /\ peer.pc = "cdp_dump"
    /\ \E ok \in DumpOutcomes(proc) :
         /\ files' = [f \in FileNames |->
                        IF f = "dump.log" \/ (ok /\ f = "pstree.img")
                        THEN PeerFile(<<>>) ELSE files[f]]
         /\ peer' = [peer EXCEPT !.pc = IF ok THEN "done" ELSE "cwm_dump"]
    /\ UNCHANGED MainVars
    /\ UNCHANGED dirExists

\* checkpoint_docker.go 139-182: the fallback of the second process.
peer_fallback ==
    /\ peer.pc = "cwm_dump"
    /\ \E ok \in DumpOutcomes(proc) :
         /\ files' = [f \in FileNames |->
                        IF f = "dump.log" THEN NoFile
                        ELSE IF f = "dump-minimal.log" \/ (ok /\ f = "pstree.img")
                        THEN PeerFile(<<>>) ELSE files[f]]
         /\ peer' = [peer EXCEPT !.pc = "done"]
    /\ UNCHANGED MainVars
    /\ UNCHANGED dirExists

Peer == peer_start \/ peer_record \/ peer_dump \/ peer_fallback

----------------------------------------------------------------------------

Checkpoint ==
    \/ main_checkpoint \/ main_checkpoint_container
    \/ cdc_inspect \/ cdc_mkdir \/ cdc_writemeta
    \/ cdp_version \/ cdp_prepare \/ cdp_open \/ cdp_probe \/ cdp_dump
    \/ cwm_remove \/ cwm_prepare \/ cwm_open \/ cwm_dump
    \/ csp_mkdir \/ csp_version \/ csp_prepare \/ csp_open \/ csp_probe \/ csp_dump
    \/ cc_inspect \/ cc_mkdir \/ cc_writemeta \/ cc_version \/ cc_prepare \/ cc_open
    \/ cc_dump
    \/ call_checkpointDockerNative \/ cdn_inspect \/ cdn_mkdir \/ cdn_checkpoint
    \/ call_checkpointContainerDirect
    \/ ccd_inspect \/ ccd_mkdir \/ ccd_writemeta
    \/ cpd_version \/ cpd_prepare \/ cpd_open \/ cpd_dump
    \/ ccd_return

Restore ==
    \/ main_restore
    \/ rc_readmeta \/ rc_stop \/ rc_version \/ rc_prepare \/ rc_open \/ rc_restore
    \/ rc_verify
    \/ call_restoreContainerDirect
    \/ call_restoreContainerDirect_350 \/ rcd2_readmeta \/ rcd2_remove \/ rcd2_create
    \/ rcd2_start \/ rcd2_stop
    \/ rcd_stop \/ rpd_version \/ rpd_prepare \/ rpd_open \/ rpd_restore
    \/ rcd_return
    \/ call_restoreContainerDocker
    \/ rcdk_readmeta \/ rcdk_native \/ rcdk_create \/ rcdk_start \/ rcdk_verify
    \/ call_restoreContainerDocker_part_001
    \/ rcdf_start \/ rcdf_verify
    \/ rcdk_return
    \/ main_restore_process \/ rsp_restore
    \/ call_restoreContainerWithRecreate \/ rwr_readmeta \/ rwr_recreate \/ rwr_start
    \/ call_restoreDockerNative \/ rdn_readmeta \/ rwc_stop \/ rwc_start
    \/ call_restoreDockerNative_part_004 \/ rwc_remove
    \/ native_return

Next == Checkpoint \/ Restore \/ main_exit \/ Operator
           \/ main_undispatched \/ main_exit_undispatched

Spec == Init /\ [][Next]_vars

\* The same program with a second process alongside.
NextConcurrent == Next \/ Peer

SpecConcurrent == Init /\ [][NextConcurrent]_vars

----------------------------------------------------------------------------
(* The target process exits while it is probed: after the os.Stat of
   validateProcessExists (process.go 45-51) has found /proc/<pid>/stat and
   before getProcessState (process.go 53-58) reads it.  Every later read of
   /proc/<pid> fails as well, so no descriptor and no connection is seen. *)

\* prepareProcessForDump (process.go 183-217) from checkpointDockerProcess.
cdp_probe_exit ==
    /\ pc = "cdp_probe"
    /\ validateProcessExists(proc)
    /\ proc' = "none"
    /\ ctr' = IF ctr.running /\ ctr.pid = pid THEN Stopped(ctr) ELSE ctr
    /\ \E sj \in BOOLEAN :
         LET inf == analyzeProcess(pid, "none", FALSE, FALSE) IN
         /\ info' = inf
         /\ IF inf.State # "zombie"
            THEN /\ opts' = prepareProcessForDump(inf, DockerOpts(pid), sj)
                 /\ pc' = "cdp_dump"
                 /\ UNCHANGED <<ret, handles, clients, attempts>>
            ELSE /\ Return(Err("failed to prepare process for dump", {}))
                 /\ attempts' = FailedAttempt("checkpointDockerProcess")
                 /\ opts' = DockerOpts(pid)
    /\ UNCHANGED <<dirExists, files, entry, opNo, pid, dumps,
                   calls, exitCode, loaded, restores, observed>>
    /\ UNCHANGED <<peer, procfs, notify, target>>

\* prepareProcessForDump from checkpointSimpleProcess.
csp_probe_exit ==
    /\ pc = "csp_probe"
    /\ validateProcessExists(proc)
    /\ proc' = "none"
    /\ ctr' = IF ctr.running /\ ctr.pid = pid THEN Stopped(ctr) ELSE ctr
    /\ \E sj \in BOOLEAN :
         LET inf == analyzeProcess(pid, "none", FALSE, FALSE) IN
         /\ info' = inf
         /\ IF inf.State # "zombie"
            THEN /\ opts' = prepareProcessForDump(inf, SimpleOpts(pid), sj)
                 /\ pc' = "csp_dump"
                 /\ UNCHANGED <<ret, handles, clients, attempts>>
            ELSE /\ Return(Err("failed to prepare process", {}))
                 /\ attempts' = FailedAttempt("checkpointSimpleProcess")
                 /\ opts' = SimpleOpts(pid)
    /\ UNCHANGED <<dirExists, files, entry, opNo, pid, dumps,
                   calls, exitCode, loaded, restores, observed>>
    /\ UNCHANGED <<peer, procfs, notify, target>>

NextExit == Next \/ cdp_probe_exit \/ csp_probe_exit

SpecExit == Init /\ [][NextExit]_vars

----------------------------------------------------------------------------
(* NotifyHandler (notify.go): the callbacks the engine client calls on a
   handler, each taken on its own.  A handler is any value of the struct; the
   hook scripts are files that may be missing and that exit with a status. *)

ScriptNames == {"a.sh", "b.sh"}
ScriptOutcomes == {"missing", "exit 0", "exit 1"}

\* NewNotifyHandler: no script is configured.
NewNotifyHandler(verbose) ==
    [PreDumpScript |-> "", PostDumpScript |-> "", PreRestoreScript |-> "",
     LogPrefix |-> "[CRIU Notify]", Verbose |-> verbose]

NotifyHandler ==
    [PreDumpScript : ScriptNames \cup {""}, PostDumpScript : ScriptNames \cup {""},
     PreRestoreScript : ScriptNames \cup {""}, LogPrefix : {"[CRIU Notify]"},
     Verbose : BOOLEAN]

\* The state before any invocation, apart from ctr, proc, procfs and notify.
Quiescent ==
    /\ dirExists = FALSE
    /\ files = [f \in FileNames |-> NoFile]
    /\ pc = "idle"
    /\ entry = ""
    /\ opNo = 0
    /\ pid = 0
    /\ info = NoInfo
    /\ opts = EmptyOpts
    /\ dumps = <<>>
    /\ attempts = <<>>
    /\ handles = {}
    /\ clients = {}
    /\ calls = <<>>
    /\ ret = NoErr
    /\ exitCode = -1
    /\ loaded = NoLoaded
    /\ restores = <<>>
    /\ observed = "none"
    /\ peer = NoPeer
    /\ target = ""

InitNotify ==
    /\ Quiescent
    /\ ctr = NoContainer
    /\ proc = "none"
    /\ procfs = NoProcfs
    /\ notify \in [handler : NotifyHandler, scripts : [ScriptNames -> ScriptOutcomes],
                   called : {""}, result : {NoErr}]

\* executeScript with os.Stat reporting the file missing, in place of a run.
executeScript_FailIfMissing(script, phase, scripts) ==
    IF scripts[script] = "exit 0" THEN Ok
    ELSE Err(phase \o " script failed", {})

\* executeScript: nil when os.Stat says the script does not exist; otherwise
\* /bin/sh runs it and a non-zero exit status is the error.
executeScript(script, phase, scripts) ==
    IF scripts[script] = "missing" THEN Ok
    ELSE IF scripts[script] = "exit 0" THEN Ok
    ELSE Err(phase \o " script failed", {})

\* What a callback leaves alone: everything but the handler.
NotifyFrame ==
    <<ctr, proc, dirExists, files, pc, entry, opNo, pid, info, opts, dumps, attempts,
      handles, clients, calls, ret, exitCode, loaded, restores, observed, peer,
      procfs, target>>

\* The callback name has been called on the handler and has returned r.
Called(name, r) == [notify EXCEPT !.called = name, !.result = r]

PreDump ==
    /\ notify.called = ""
    /\ notify' = Called("PreDump",
                        IF notify.handler.PreDumpScript # ""
                        THEN executeScript(notify.handler.PreDumpScript, "PreDump",
                                           notify.scripts)
                        ELSE Ok)
    /\ UNCHANGED NotifyFrame

PostDump ==
    /\ notify.called = ""
    /\ notify' = Called("PostDump",
                        IF notify.handler.PostDumpScript # ""
                        THEN executeScript(notify.handler.PostDumpScript, "PostDump",
                                           notify.scripts)
                        ELSE Ok)
    /\ UNCHANGED NotifyFrame

PreRestore ==
    /\ notify.called = ""
    /\ notify' = Called("PreRestore",
                        IF notify.handler.PreRestoreScript # ""
                        THEN executeScript(notify.handler.PreRestoreScript, "PreRestore",
                                           notify.scripts)
                        ELSE Ok)
    /\ UNCHANGED NotifyFrame

PostRestore ==
    /\ notify.called = ""
    /\ notify' = Called("PostRestore", Ok)
    /\ UNCHANGED NotifyFrame

NetworkLock ==
    /\ notify.called = ""
    /\ notify' = Called("NetworkLock", Ok)
    /\ UNCHANGED NotifyFrame

NetworkUnlock ==
    /\ notify.called = ""
    /\ notify' = Called("NetworkUnlock", Ok)
    /\ UNCHANGED NotifyFrame

SetupNamespaces ==
    /\ notify.called = ""
    /\ notify' = Called("SetupNamespaces", Ok)
    /\ UNCHANGED NotifyFrame

PostSetupNamespaces ==
    /\ notify.called = ""
    /\ notify' = Called("PostSetupNamespaces", Ok)
    /\ UNCHANGED NotifyFrame

PostResume ==
    /\ notify.called = ""
    /\ notify' = Called("PostResume", Ok)
    /\ UNCHANGED NotifyFrame

NextNotify ==
    \/ PreDump \/ PostDump \/ PreRestore \/ PostRestore \/ NetworkLock
    \/ NetworkUnlock \/ SetupNamespaces \/ PostSetupNamespaces \/ PostResume

SpecNotify == InitNotify /\ [][NextNotify]_vars

----------------------------------------------------------------------------
(* analyzeProcess (process.go 26-43) with the /proc files it reads: the file
   descriptors, the two TCP tables and the unix-socket table of a process.
   A text file is the sequence of its lines, each ended by a newline; a line
   is the sequence of its whitespace-separated fields. *)

MaxEntries == 2

\* The sequences over S of length at most n.
SeqsUpTo(S, n) == UNION {[1..k -> S] : k \in 0..n}

\* A file or directory that cannot be read.
Unreadable == [readable |-> FALSE, lines |-> <<>>]

TcpHeader == <<"sl", "local_address", "rem_address", "st">>
TcpEntry(st) == <<"0:", "0100007F:1F90", "00000000:0000", st>>

\* /proc/<pid>/net/tcp and tcp6: the header line, then one line per socket
\* with its state in the fourth field, established or listening.
TcpTables ==
    {Unreadable} \cup
    {[readable |-> TRUE, lines |-> <<TcpHeader>> \o e] :
        e \in SeqsUpTo({TcpEntry(st) : st \in {"01", "0A"}}, MaxEntries)}

UnixHeader == <<"Num", "RefCount", "Protocol", "Flags", "Type", "St", "Inode", "Path">>
UnixEntry == <<"0000000000000000:", "00000002", "00000000", "00010000", "0001", "01",
               "12345", "/run/x.sock">>

\* /proc/<pid>/net/unix: the header line, then one line per socket.
UnixTables ==
    {Unreadable} \cup
    {[readable |-> TRUE, lines |-> <<UnixHeader>> \o e] :
        e \in SeqsUpTo({UnixEntry}, MaxEntries)}

\* /proc/<pid>/fd: the link target of each open descriptor.
FdDirs ==
    {Unreadable} \cup
    {[readable |-> TRUE, lines |-> e] :
        e \in SeqsUpTo({"socket:[12345]", "pipe:[678]"}, MaxEntries)}

\* The /proc files of a process that exists; none can be read of one that
\* does not.
InitProbe ==
    /\ Quiescent
    /\ ctr = NoContainer
    /\ notify = NoNotify
    /\ proc \in ProcStats
    /\ procfs \in [tcp : TcpTables, tcp6 : TcpTables, unix : UnixTables, fd : FdDirs]
    /\ proc = "none" => procfs = NoProcfs

\* strings.Split(data, "\n") of a text whose lines all end in a newline: the
\* lines and one empty string after the last newline.
Split(lines) == lines \o << <<>> >>

\* strings.HasPrefix on the link targets of the model.
HasPrefix(link, prefix) ==
    \/ prefix = "socket:" /\ link = "socket:[12345]"
    \/ prefix = "pipe:" /\ link = "pipe:[678]"

\* strconv.ParseUint(s, 16, 32) on the state fields of the model; -1: error.
ParseUint(s) ==
    CASE s = "01" -> 1
      [] s = "0A" -> 10
      [] OTHER -> -1

\* checkFileDescriptors: a descriptor whose link target starts with "socket:"
\* sets HasUnixSockets.
checkFileDescriptors(dir, inf) ==
    IF ~dir.readable THEN inf
    ELSE IF \E i \in 1..Len(dir.lines) : HasPrefix(dir.lines[i], "socket:")
    THEN [inf EXCEPT !.HasUnixSockets = TRUE]
    ELSE inf

\* The loop of checkTCPConnections from line i on (i = 1 is the header): TRUE
\* as soon as a line of at least four fields has a fourth field that parses
\* to 1.
RECURSIVE ScanTCP(_, _)
ScanTCP(lines, i) ==
    IF i > Len(lines) THEN FALSE
    ELSE IF i = 1 \/ lines[i] = <<>> THEN ScanTCP(lines, i + 1)
    ELSE IF Len(lines[i]) < 4 THEN ScanTCP(lines, i + 1)
    ELSE IF ParseUint(lines[i][4]) = 1 THEN TRUE
    ELSE ScanTCP(lines, i + 1)

checkTCPConnections(file, inf) ==
    IF ~file.readable THEN inf
    ELSE IF ScanTCP(Split(file.lines), 1) THEN [inf EXCEPT !.HasTCP = TRUE]
    ELSE inf

\* checkUnixSockets: more than one element in the split text sets
\* HasUnixSockets.
checkUnixSockets(file, inf) ==
    IF ~file.readable THEN inf
    ELSE IF Len(Split(file.lines)) > 1 THEN [inf EXCEPT !.HasUnixSockets = TRUE]
    ELSE inf

\* checkNetworkConnections without the scan of the IPv6 table.
checkNetworkConnections_Tcp4Only(fs, inf) ==
    checkUnixSockets(fs.unix, checkTCPConnections(fs.tcp, inf))

\* checkNetworkConnections: the IPv4 table, the IPv6 table, the unix table.
checkNetworkConnections(fs, inf) ==
    checkUnixSockets(fs.unix,
        checkTCPConnections(fs.tcp6, checkTCPConnections(fs.tcp, inf)))

\* analyzeProcess(pid) on the /proc files of the process.
call_analyzeProcess ==
    /\ pc = "idle"
    /\ pc' = "return"
    /\ IF validateProcessExists(proc)
       THEN /\ info' = checkNetworkConnections(procfs,
                          checkFileDescriptors(procfs.fd,
                              analyzeProcess(1, proc, FALSE, FALSE)))
            /\ ret' = Ok
       ELSE /\ ret' = Err("process does not exist", {})
            /\ UNCHANGED info
    /\ UNCHANGED <<ctr, proc, dirExists, files, entry, opNo, pid, opts, dumps,
                   attempts, handles, clients, calls, exitCode, loaded, restores,
                   observed, peer, procfs, notify, target>>

NextProbe == call_analyzeProcess

SpecProbe == InitProbe /\ [][NextProbe]_vars

----------------------------------------------------------------------------
(* The restore-side parsers of the metadata file, each on a file of any few
   lines: restoreContainer (restore.go 27-43), readMetadata (restore.go
   346-369) and getPIDFromMetadata (checkpoint.go 160-187). *)

MaxLines == 4

\* The lines a metadata file is made of here: the lines a checkpoint writes
\* and PID lines with other values.
MetadataLineSet ==
    {[key |-> "CONTAINER_ID", val |-> ContainerID],
     [key |-> "CONTAINER_NAME", val |-> ContainerID]}
    \cup {[key |-> "IMAGE", val |-> img] : img \in ImageRef}
    \cup {[key |-> "PID", val |-> v] : v \in {"1", "0", "-1", "abc", ""}}

\* An earlier invocation has left container.info and container.meta with the
\* same text.
InitMetadata ==
    /\ ctr = NoContainer
    /\ proc = "none"
    /\ dirExists = TRUE
    /\ \E lines \in SeqsUpTo(MetadataLineSet, MaxLines) :
         files = [f \in FileNames |->
                    IF f \in {"container.info", "container.meta"}
                    THEN [lines |-> lines, by |-> "checkpointContainer", op |-> 1]
                    ELSE NoFile]
    /\ pc = "idle"
    /\ entry = ""
    /\ opNo = 1
    /\ pid = 0
    /\ info = NoInfo
    /\ opts = EmptyOpts
    /\ dumps = <<>>
    /\ attempts = <<>>
    /\ handles = {}
    /\ clients = {}
    /\ calls = <<>>
    /\ ret = NoErr
    /\ exitCode = -1
    /\ loaded = NoLoaded
    /\ restores = <<>>
    /\ observed = "none"
    /\ peer = NoPeer
    /\ procfs = NoProcfs
    /\ notify = NoNotify
    /\ target = ""

call_getPIDFromMetadata ==
    Begin("getPIDFromMetadata", "gpm_read", 0, "")

\* Lines 172-182: the Sscanf of the four lines leaves pid at 0 or at the number
\* of the PID line; when it is 0 the first line "PID=<text>" with a text is
\* taken, and strconv.Atoi of the text gives the pid, 0 when it fails.
getPIDFromMetadata(lines) ==
    LET idx == {i \in 1..Len(lines) : lines[i].key = "PID" /\ lines[i].val # ""}
        first == CHOOSE i \in idx : \A j \in idx : i <= j
    IN  IF idx # {} /\ IsDecimal(lines[first].val)
        THEN Atoi(lines[first].val) ELSE 0

\* Lines 161-187: os.ReadFile of container.info, the parse, and the error when
\* the pid is 0.
gpm_read ==
    /\ pc = "gpm_read"
    /\ IF ~dirExists \/ files["container.info"].op = 0
       THEN /\ Return(Err("failed to read metadata file", {}))
            /\ UNCHANGED loaded
       ELSE /\ loaded' = [read |-> TRUE, IMAGE |-> "",
                          PID |-> getPIDFromMetadata(files["container.info"].lines)]
            /\ IF getPIDFromMetadata(files["container.info"].lines) = 0
               THEN Return(Err("could not parse PID from metadata", {}))
               ELSE Return(Ok)
    /\ UNCHANGED <<ctr, proc, dirExists, files, entry, opNo, pid, info, opts, dumps,
                   attempts, calls, exitCode, restores, observed>>
    /\ UNCHANGED <<peer, procfs, notify, target>>

NextMetadata ==
    \/ main_restore \/ rc_readmeta
    \/ call_restoreContainerWithRecreate \/ rwr_readmeta
    \/ call_getPIDFromMetadata \/ gpm_read

SpecMetadata == InitMetadata /\ [][NextMetadata]_vars

----------------------------------------------------------------------------
(* prepareProcessForDump (process.go 183-217) on options of any caller: the
   options of one of the checkpoint functions with any values of the three
   flags the function writes. *)

InitPrepare ==
    /\ ctr = NoContainer
    /\ proc \in ProcStats
    /\ dirExists = FALSE
    /\ files = [f \in FileNames |-> NoFile]
    /\ pc = "idle"
    /\ entry = ""
    /\ opNo = 0
    /\ pid = 1
    /\ info = NoInfo
    /\ \E base \in {DockerOpts(1), SimpleOpts(1), MinimalOpts(1)},
          tcp \in {Nil, T, F}, sk \in {Nil, T, F}, sj \in {Nil, T, F} :
         opts = [base EXCEPT !.TcpEstablished = tcp, !.ExtUnixSk = sk,
                             !.ShellJob = sj]
    /\ dumps = <<>>
    /\ attempts = <<>>
    /\ handles = {}
    /\ clients = {}
    /\ calls = <<>>
    /\ ret = NoErr
    /\ exitCode = -1
    /\ loaded = NoLoaded
    /\ restores = <<>>
    /\ observed = "none"
    /\ peer = NoPeer
    /\ procfs = NoProcfs
    /\ notify = NoNotify
    /\ target = ""

\* Lines 183-217: analyzeProcess, whose error is returned; the zombie check;
\* then the three flags.  The process may exit between the os.Stat of
\* validateProcessExists and the read of its state.
call_prepareProcessForDump ==
    /\ pc = "idle"
    /\ pc' = "return"
    /\ entry' = "prepareProcessForDump"
    /\ IF ~validateProcessExists(proc)
       THEN /\ ret' = Err("failed to analyze process", {})
            /\ UNCHANGED <<proc, info, opts>>
       ELSE \E seen \in {proc, "none"}, tcp \in BOOLEAN, sock \in BOOLEAN,
               sj \in BOOLEAN :
              LET inf == analyzeProcess(pid, seen, tcp /\ seen # "none",
                                        sock /\ seen # "none") IN
              /\ proc' = seen
              /\ info' = inf
              /\ IF inf.State = "zombie"
                 THEN /\ ret' = Err("cannot checkpoint zombie process", {})
                      /\ UNCHANGED opts
                 ELSE /\ ret' = Ok
                      /\ opts' = prepareProcessForDump(inf, opts, sj)
    /\ UNCHANGED <<ctr, dirExists, files, opNo, pid, dumps, attempts, handles,
                   clients, calls, exitCode, loaded, restores, observed>>
    /\ UNCHANGED <<peer, procfs, notify, target>>

NextPrepare == call_prepareProcessForDump

SpecPrepare == InitPrepare /\ [][NextPrepare]_vars

----------------------------------------------------------------------------
(* Properties *)

IsPrefix(s, t) == Len(s) <= Len(t) /\ \A i \in 1..Len(s) : s[i] = t[i]

FallbackChain == <<"checkpointDockerProcess", "checkpointWithMinimalOptions">>
DumpOrder == [i \in 1..Len(dumps) |-> dumps[i].by]
AttemptOrder == [i \in 1..Len(attempts) |-> attempts[i].by]
Finished == pc \in {"return", "idle"}
MinimalSteps == {"cwm_remove", "cwm_prepare", "cwm_open", "cwm_dump"}

C2_TcpEnabledInEveryDump ==
    \A i \in 1..Len(dumps) :
        (info.HasTCP /\ dumps[i].by \in {"checkpointDockerProcess",
                                         "checkpointWithMinimalOptions",
                                         "checkpointSimpleProcess"})
        => dumps[i].opts.TcpEstablished = T

\* C3: no engine dump is ever invoked for a process in zombie state, whatever
\* the entry point; an invocation that probed a zombie issues no dump and ends
\* in an error.
C3_ZombieNeverDumped ==
    /\ \A i \in 1..Len(dumps) : getProcessState(dumps[i].stat) # "zombie"
    /\ info.State = "zombie" => (dumps = <<>> /\ (Finished => ret.status = "error"))

\* C4: when both attempts of the fallback chain have failed, the returned error
\* carries the outcome of both, and the diagnostic log of the first attempt is
\* still in the checkpoint directory.
C4_ExhaustedCarriesEveryOutcome ==
    (/\ entry = "checkpointDockerContainer"
     /\ Finished
     /\ Len(dumps) = 2
     /\ ~dumps[1].ok /\ ~dumps[2].ok)
    => /\ ret.status = "error"
       /\ {"checkpointDockerProcess", "checkpointWithMinimalOptions"} \subseteq ret.carries
       /\ files["dump.log"].op = opNo

NoMetadataFile ==
    \/ ~dirExists
    \/ \A f \in {"container.info", "container.meta"} : files[f].op = 0

\* C5: a container restore from a directory without a metadata file issues no
\* container-runtime call and no engine restore, and ends in an error (exit 1).
C5_NoMetadataNoReconciliation ==
    (entry \in {"restoreContainer", "restoreContainerDirect"} /\ NoMetadataFile)
    => /\ calls = <<>>
       /\ restores = <<>>
       /\ pc = "return" => ret.status = "error"
       /\ (pc = "idle" /\ entry \in CLIEntries) => exitCode = 1

\* C6: a checkpoint of a bare process id for which no process exists changes
\* nothing in the filesystem, issues no dump, and ends in an error (exit 1).
C6_MissingProcessLeavesNoTrace ==
    [][(pc # "idle" /\ entry = "checkpointSimpleProcess" /\ proc = "none" /\ peer' = peer)
       => /\ dirExists' = dirExists
          /\ files' = files
          /\ dumps' = <<>>
          /\ pc' = "return" => ret'.status = "error"
          /\ pc' = "idle" => exitCode' = 1]_vars

\* The strategy identifier a metadata record holds, "" when it holds none.
RecordedStrategy(lines) == LastValue(lines, "STRATEGY", "")

\* C7: when restore has loaded the record a successful checkpoint wrote, the
\* record yields the strategy whose dump produced the images.
C7_RecordRoundTrip ==
    (/\ entry = "restoreContainer"
     /\ loaded.read
     /\ files["pstree.img"].op # 0
     /\ files["pstree.img"].by \in {"checkpointDockerProcess",
                                    "checkpointWithMinimalOptions"}
     /\ files["container.info"].op = files["pstree.img"].op)
    => RecordedStrategy(files["container.info"].lines) = files["pstree.img"].by

CheckpointEntries == {"checkpointSimpleProcess", "checkpointDockerContainer",
                      "checkpointContainer", "checkpointContainerDirect"}

\* C8: once a checkpoint has completed (record and images of the same
\* invocation), a later checkpoint into the same directory leaves that record
\* and those images as they are.
C8_RecordImmutable ==
    [][(/\ files["pstree.img"].op # 0
        /\ files["container.info"].op = files["pstree.img"].op
        /\ entry' \in CheckpointEntries
        /\ peer' = peer)
       => /\ files'["container.info"] = files["container.info"]
          /\ files'["pstree.img"] = files["pstree.img"]]_vars

\* C9: after a successful engine restore, restoreContainer returns success only
\* if the target was observed running with a non-zero process id, and returns
\* an error otherwise.
C9_SuccessOnlyIfObservedRunning ==
    (/\ entry = "restoreContainer"
     /\ Finished
     /\ restores # <<>>
     /\ restores[Len(restores)].ok)
    => /\ ret.status = "ok" => observed = "running"
       /\ observed # "running" => ret.status = "error"

\* C10: restoreContainer never invokes the engine restore while the container
\* is running, and a failed stop ends it in an error.
C10_StoppedBeforeRestore ==
    entry = "restoreContainer" =>
        /\ \A i \in 1..Len(restores) : ~restores[i].ctrRunning
        /\ (Finished /\ \E i \in 1..Len(calls) : calls[i].call = "stop" /\ ~calls[i].ok)
           => ret.status = "error"

\* The restore primitives an invocation has used: engine restores and runtime
\* starts from the checkpoint, with the number that failed.
StartsFromCheckpoint == {i \in 1..Len(calls) : calls[i].call = "start_checkpoint"}
PrimitiveFailed ==
    \/ \E i \in StartsFromCheckpoint : ~calls[i].ok
    \/ \E i \in 1..Len(restores) : ~restores[i].ok

\* C11: in restoreContainerDocker a failed restore primitive is terminal: the
\* invocation uses at most one restore primitive, ends in an error when one
\* failed, and does not return success after a normal start of the container.
C11_RestoreFailureTerminal ==
    entry \in DockerRestoreEntries =>
        /\ Cardinality(StartsFromCheckpoint) + Len(restores) <= 1
        /\ (Finished /\ PrimitiveFailed) => ret.status = "error"
        /\ (Finished /\ ret.status = "ok") =>
              ~\E i \in 1..Len(calls) : calls[i].call = "start" /\ calls[i].ok

\* C12: a second checkpoint of the target started while the first invocation
\* is at its engine call is refused: it never writes the metadata record or any
\* other file of the directory, and never reaches an engine dump of its own.
C12_SecondAttemptRefused ==
    peer.during \in EngineSteps =>
        /\ peer.pc \notin {"cdp_dump", "cwm_dump"}
        /\ \A f \in FileNames : files[f].by # "peer"

RecordNames == {"container.info", "container.meta"}

\* C13: a checkpoint invocation that returned success has left a metadata
\* record of its own in the destination directory.
C13_SuccessLeavesRecord ==
    (entry \in CheckpointEntries /\ Finished /\ ret.status = "ok")
    => \E f \in RecordNames : files[f].op = opNo

\* C14: within a checkpoint invocation the record is written only after one of
\* its engine dumps has succeeded, and an invocation that ended in an error has
\* left no record of its own.
C14_RecordOnlyAfterDump ==
    entry \in CheckpointEntries =>
        \A f \in RecordNames :
            files[f].op = opNo =>
                /\ \E i \in 1..Len(dumps) : dumps[i].ok
                /\ Finished => ret.status = "ok"

InspectSteps == {"cdc_inspect", "cc_inspect", "ccd_inspect"}

\* C15: a container checkpoint that finds the container not running, or
\* running with process id 0, ends at its inspect step in an error, with the
\* directory and its files as they were; nothing else of it runs.
C15_NotRunningNoSideEffect ==
    [][(/\ pc \in InspectSteps
        /\ pc' # pc
        /\ ~(ctr.exists /\ ctr.running /\ ctr.pid # 0))
       => /\ pc' = "return"
          /\ ret'.status = "error"
          /\ dirExists' = dirExists
          /\ files' = files
          /\ dumps' = <<>>
          /\ info' = NoInfo]_vars

VersionSteps == {"cdp_version", "csp_version", "cc_version", "cpd_version",
                 "rc_version", "rpd_version"}
PrepareSteps == {"cdp_prepare", "csp_prepare", "cc_prepare", "cpd_prepare",
                 "rc_prepare", "rpd_prepare"}
VersionFailures == {"failed to get CRIU version (is CRIU installed?)",
                    "failed to get CRIU version", "CRIU check failed"}

\* C16: a step that checks the engine version either passes on to the engine
\* set-up or makes the function return an error at once; an invocation that
\* returns this error has issued no dump and no restore, has not probed the
\* process and has made no fallback attempt, and the CLI exits 1 on it.
C16_VersionFailureImmediate ==
    [][/\ (pc \in VersionSteps /\ pc' # pc) =>
             \/ pc' \in PrepareSteps /\ ret' = ret
             \/ /\ pc' = "return"
                /\ ret'.status = "error"
                /\ ret'.msg \in VersionFailures
                /\ dumps' = <<>>
                /\ restores' = <<>>
                /\ info' = NoInfo
                /\ Len(attempts') <= 1
       /\ (/\ pc = "return" /\ pc' = "idle"
           /\ ret.msg \in VersionFailures
           /\ entry \in CLIEntries) => exitCode' = 1]_vars

C16_Witness ==
    /\ entry = "checkpointDockerContainer"
    /\ pc = "idle"
    /\ ret.msg \in VersionFailures
    /\ exitCode = 1

\* C17: every engine dump of an invocation dispatched from the command line
\* is handed options with LeaveRunning set to true.
C17_LeaveRunningByDefault ==
    entry \in CLIEntries =>
        \A i \in 1..Len(dumps) : dumps[i].opts.LeaveRunning = T

UndispatchedEntries == {"usage", "help", "unknown"}

\* C18: when the command-line program has exited, its exit code is 0 exactly
\* when the command was help or the dispatched operation returned no error,
\* and 1 otherwise.
C18_ExitCode ==
    (pc = "idle" /\ entry \in CLIEntries \cup UndispatchedEntries) =>
        /\ exitCode \in {0, 1}
        /\ exitCode = 0 <=> \/ entry = "help"
                            \/ entry \in CLIEntries /\ ret.status = "ok"

C18_Witness ==
    /\ pc = "idle"
    /\ entry = "restoreContainer"
    /\ ret.status = "error"
    /\ exitCode = 1

\* C19: a restoreContainer from a directory into which an earlier invocation
\* checkpointed successfully, whose engine restore succeeded, exits 0 with the
\* target observed running.
C19_CheckpointThenRestore ==
    (/\ entry = "restoreContainer"
     /\ pc = "idle"
     /\ files["pstree.img"].op \in 1..(opNo - 1)
     /\ files["container.info"].op = files["pstree.img"].op
     /\ restores # <<>>
     /\ restores[Len(restores)].ok)
    => /\ exitCode = 0
       /\ observed = "running"

\* C20: at most one checkpoint-directory handle and one prepared engine client
\* are held by an invocation at any time, and none once it has returned.
C20_OneHandleAtATime ==
    /\ Cardinality(handles) <= 1
    /\ Cardinality(clients) <= 1
    /\ Finished => (handles = {} /\ clients = {})

\* The probe position of the function whose dump position is d.
ProbeStepOf(d) ==
    CASE d = "cdp_dump" -> "cdp_probe"
      [] d = "cwm_dump" -> "cwm_probe"
      [] d = "csp_dump" -> "csp_probe"
      [] OTHER -> "none"

\* C21: in the fallback chain every attempt reaches its engine dump straight
\* from its own probe of the target: the step that brings checkpointDockerProcess
\* or checkpointWithMinimalOptions to its dump is a probe step of that same
\* function, and it leaves the profile of the process as it is at that moment.
C21_FreshProbePerAttempt ==
    [][(pc' \in {"cdp_dump", "cwm_dump"} /\ pc' # pc)
       => /\ pc = ProbeStepOf(pc')
          /\ info'.PID = pid'
          /\ info'.State = getProcessState(proc)]_vars

\* The restore entry points that read a record, reconcile the target and
\* invoke the engine.
EngineRestoreEntries ==
    {"restoreContainer", "restoreContainerDirect", "restoreContainerDirect/350"}

\* The runtime calls that only look at the target.
LookCalls == {"inspect", "list"}

\* C22: in every restore entry point the engine restore is invoked only after
\* the metadata record has been read and after the last reconciling runtime
\* call, and the runtime is looked at for verification only after an engine
\* restore that returned success.
C22_RestorePhasesInOrder ==
    entry \in EngineRestoreEntries =>
        /\ \A i \in 1..Len(restores) :
              /\ restores[i].metadataRead
              /\ \A j \in (Len(restores[i].calls) + 1)..Len(calls) :
                    calls[j].call \in LookCalls
        /\ observed # "none" => (restores # <<>> /\ restores[Len(restores)].ok)

\* The runtime calls that change the state of a container.
ChangingCalls == {"stop", "remove", "create", "start", "start_checkpoint"}

\* C23: restoreDockerNative on a directory without docker-checkpoint.info
\* issues no runtime call that stops, removes or starts a container, and
\* returns an error.
C23_NoNativeMetadataNoRestore ==
    (/\ entry = "restoreDockerNative"
     /\ (~dirExists \/ files["docker-checkpoint.info"].op = 0))
    => /\ \A i \in 1..Len(calls) : calls[i].call \notin ChangingCalls
       /\ Finished => ret.status = "error"

\* The script the handler has configured for a phase, "" when it has none.
ScriptFor(h, phase) ==
    CASE phase = "PreDump" -> h.PreDumpScript
      [] phase = "PostDump" -> h.PostDumpScript
      [] phase = "PreRestore" -> h.PreRestoreScript
      [] OTHER -> ""

HookPhases == {"PreDump", "PostDump", "PreRestore"}

MirroredFields ==
    {"SkipMnt", "EnableFs", "External", "TcpEstablished", "ExtUnixSk", "FileLocks",
     "OrphanPtsMaster", "ManageCgroupsMode"}

\* The dump options of the strategy an engine restore belongs to.
PairedDumpOpts(by) ==
    IF by = "restoreContainer" THEN ContainerOpts(0) ELSE DirectOpts(0)

\* C26: the options of every engine restore of restoreContainer and of
\* restoreProcessDirect equal, field by mirrored field, the options of the
\* dump of the same strategy.
C26_RestoreMirrorsDump ==
    \A i \in 1..Len(restores) :
        restores[i].by \in {"restoreContainer", "restoreProcessDirect"}
        => \A f \in MirroredFields :
              restores[i].opts[f] = PairedDumpOpts(restores[i].by)[f]

\* The positions of the successful ContainerCreate calls of this invocation.
CreateCalls == {i \in 1..Len(calls) : calls[i].call = "create" /\ calls[i].ok}

\* The engine has put the checkpointed process back: an engine restore of this
\* invocation succeeded, or the runtime started the container from a checkpoint.
EngineRestored ==
    \/ \E i \in 1..Len(restores) : restores[i].ok
    \/ \E i \in 1..Len(calls) : calls[i].call = "start_checkpoint" /\ calls[i].ok

\* C27: once restore has recreated the container, every engine restore is
\* invoked while that container is stopped, and the operation does not return
\* success with the container running its placeholder command and no engine
\* restore performed.
C27_PlaceholderNotKept ==
    CreateCalls # {} =>
        /\ \A i \in 1..Len(restores) :
              (\E j \in CreateCalls : j <= Len(restores[i].calls))
              => ~restores[i].ctrRunning
        /\ (Finished /\ ret.status = "ok" /\ ctr.running) => EngineRestored

\* C28: every container restore creates is created from the image recorded
\* under IMAGE in the metadata the restore has read.
C28_RecreatedFromRecordedImage ==
    \A i \in CreateCalls :
        /\ loaded.read
        /\ loaded.IMAGE # ""
        /\ calls[i].image = loaded.IMAGE

\* The table lists a socket in the established state: a line after the
\* header whose state field is 01.
Established(table) ==
    /\ table.readable
    /\ \E i \in 2..Len(table.lines) : table.lines[i][4] = "01"

Analyzed == pc = "return" /\ ret.status = "ok" /\ info.PID # 0

\* C29: after analyzeProcess, HasTCP is true exactly when the IPv4 or the
\* IPv6 TCP table lists an established socket, wherever in either table.
C29_HasTCPIffEstablished ==
    Analyzed => (info.HasTCP <=> (Established(procfs.tcp) \/ Established(procfs.tcp6)))

\* HasTCP was set for a match that is the last entry of the IPv6 table, after
\* a listening socket, with an IPv4 table that lists no established socket.
C29_Witness ==
    /\ Analyzed
    /\ info.HasTCP
    /\ procfs.tcp.readable /\ Len(procfs.tcp.lines) > 1 /\ ~Established(procfs.tcp)
    /\ procfs.tcp6.readable
    /\ Len(procfs.tcp6.lines) = 3
    /\ procfs.tcp6.lines[2][4] = "0A"
    /\ procfs.tcp6.lines[3][4] = "01"

\* C30: after analyzeProcess, HasUnixSockets is true exactly when the unix
\* table lists a socket after its header or a descriptor resolves to a socket;
\* a header-only table and no socket descriptor give false.
C30_HasUnixSocketsIffListed ==
    Analyzed =>
        (info.HasUnixSockets
         <=> \/ procfs.unix.readable /\ Len(procfs.unix.lines) > 1
             \/ /\ procfs.fd.readable
                /\ \E i \in 1..Len(procfs.fd.lines) : procfs.fd.lines[i] = "socket:[12345]")

\* The metadata text in front of the parsers.
MetadataText == files["container.info"].lines

\* No PID line of the text carries a positive number.
NoPositivePid ==
    \A i \in 1..Len(MetadataText) :
        MetadataText[i].key = "PID" => MetadataText[i].val # "1"

\* C31: from the four lines a checkpoint writes, restoreContainer recovers the
\* written IMAGE and PID, readMetadata the written IMAGE and
\* getPIDFromMetadata the written PID; and getPIDFromMetadata returns an
\* error, and never 0 without one, when no PID line carries a positive number.
C31_MetadataRoundTrip ==
    /\ \A img \in ImageRef, p \in Pids :
          MetadataText = MetadataLines(ContainerID, ContainerID, img, p)
          => /\ (entry = "restoreContainer" /\ loaded.read)
                => (loaded.IMAGE = img /\ loaded.PID = p)
             /\ (entry = "restoreContainerWithRecreate" /\ loaded.read)
                => loaded.IMAGE = img
             /\ (entry = "getPIDFromMetadata" /\ pc = "return")
                => (ret.status = "ok" /\ loaded.PID = p)
    /\ (entry = "getPIDFromMetadata" /\ pc = "return")
          => /\ ~(ret.status = "ok" /\ loaded.PID = 0)
             /\ NoPositivePid => ret.status = "error"

\* The calls the invocation has made to the container runtime.
RuntimeCalls == DOMAIN calls

NativeRestoreEntries == {"restoreDockerNative", "restoreDockerNative/part_004"}

\* C33: the runtime-native restore never issues the start from the checkpoint
\* after a ContainerRemove of the same identifier that succeeded earlier in
\* the same invocation with no ContainerCreate in between.
C33_NoStartOfRemoved ==
    entry \in NativeRestoreEntries =>
        \A i \in 1..Len(calls) :
            calls[i].call = "start_checkpoint" =>
                \A j \in 1..(i - 1) :
                    (calls[j].call = "remove" /\ calls[j].ok) =>
                        \E k \in (j + 1)..(i - 1) :
                            calls[k].call = "create" /\ calls[k].ok

\* C34: a probe that could not read the state of the process (state
\* "unknown") returns an error, and no engine dump is invoked while the
\* profile of the invocation has the state "unknown".
C34_VanishedNeverDumped ==
    [][/\ (pc \in {"cdp_probe", "csp_probe"} /\ info'.State = "unknown")
          => (pc' = "return" /\ ret'.status = "error")
       /\ Len(dumps') > Len(dumps) => info.State # "unknown"]_vars

\* The option fields prepareProcessForDump may write.
PreparedFields == {"TcpEstablished", "ExtUnixSk", "ShellJob"}

\* C35: a call of prepareProcessForDump leaves every option field but
\* TcpEstablished, ExtUnixSk and ShellJob as it was, leaves TcpEstablished
\* and ExtUnixSk as they were or sets them to true, changes ShellJob only
\* when it was unset, and leaves all the options as they were when it
\* returns an error.
C35_PrepareOnlyStrengthens ==
    [][(pc = "idle" /\ pc' = "return")
       => /\ ret'.status = "error" => opts' = opts
          /\ \A f \in (DOMAIN opts) \ PreparedFields : opts'[f] = opts[f]
          /\ opts'.TcpEstablished \in {opts.TcpEstablished, T}
          /\ opts'.ExtUnixSk \in {opts.ExtUnixSk, T}
          /\ opts.ShellJob # Nil => opts'.ShellJob = opts.ShellJob]_vars

\* prepareProcessForDump has returned success on a process without a TCP
\* connection and with a unix socket, on options that had TcpEstablished
\* true, ExtUnixSk false and ShellJob false.
C35_Witness ==
    /\ entry = "prepareProcessForDump"
    /\ pc = "return"
    /\ ret.status = "ok"
    /\ ~info.HasTCP
    /\ opts.TcpEstablished = T
    /\ info.HasUnixSockets
    /\ opts.ExtUnixSk = T
    /\ opts.ShellJob = F
    /\ opts.LogFile = "dump.log"

====
